---- MODULE Spec2Model ----
(***************************************************************************)
(* State-machine model of the ZED SVO2 extractor's ExtractionEngine        *)
(* (src/common/extraction_engine.cpp) and of the part of GUIApplication    *)
(* (src/apps/gui_extractor/gui_application.cpp) that starts, cancels and   *)
(* joins the worker thread.                                                *)
(*                                                                         *)
(* Two specifications share the engine's actions:                          *)
(*   Spec      the engine driven by the GUI: one worker thread at a time,  *)
(*             the control thread starts runs, cancels, polls completion   *)
(*             and re-renders stored frames between runs;                  *)
(*   SpecConc  the engine's public API called by two threads at once.      *)
(***************************************************************************)
EXTENDS Integers, Sequences, FiniteSets, TLC

(***************************************************************************)
(* Bounds of the model.                                                    *)
(***************************************************************************)
\* frames held by the longest source file
MaxFrames == 2
\* runs the GUI starts in one behaviour
MaxRuns == 2
\* transient (non end-of-stream) grab errors the source produces in one run
MaxGrabErrors == 1
\* reprocessDepthFrame calls in one behaviour
MaxReprocess == 1
\* calls the API threads make, in total, in one behaviour of SpecConc
MaxCalls == 2

Threads == {1, 2}
\* the GUI's single extractionThread_
Worker == 1

(***************************************************************************)
(* The source files (the SDK's view of config.svoFilePath).                *)
(***************************************************************************)
\* the files the GUI's path field selects: one that does not open, one with
\* no frame, one whose only frame has no depth, one with MaxFrames frames
SvoPaths == {"bad.svo2", "empty.svo2", "blank.svo2", "flight.svo2"}

\* camera.open(initParams) == SUCCESS
CanOpen(path) == path # "bad.svo2"

\* number of frames grab() delivers before END_OF_SVOFILE_REACHED
SvoFrames(path) ==
    CASE path = "flight.svo2" -> MaxFrames
      [] path = "blank.svo2"  -> 1
      [] path = "clip.svo2"   -> 1
      [] OTHER                -> 0

\* camera.grab() returns an error other than END_OF_SVOFILE_REACHED on every
\* call: a source damaged from its first frame on
GrabFailsForever(path) == path = "corrupt.svo2"

\* retrieveMeasure(DEPTH) leaves an empty matrix for this frame
DepthEmpty(path, frame) == path = "blank.svo2"

\* camera_configuration.fps of every source
SourceFps == 30

(***************************************************************************)
(* ExtractionResult                                                        *)
(***************************************************************************)
Success(path, frames) ==
    [success |-> TRUE, errorMessage |-> "", outputPath |-> path,
     framesProcessed |-> frames]

Failure(error) ==
    [success |-> FALSE, errorMessage |-> error, outputPath |-> 0,
     framesProcessed |-> 0]

\* the value of a default-constructed ExtractionResult, held by a thread
\* that has not returned one
NoResult == Failure("")

\* substring test on messages
Contains(m, p) ==
    \E i \in 1..(Len(m) - Len(p) + 1) : SubSeq(m, i, i + Len(p) - 1) = p

(***************************************************************************)
(* Images.  A rendered preview is identified by the source frame it shows  *)
(* and the colour map it was rendered with; EmptyMat is cv::Mat().         *)
(***************************************************************************)
EmptyMat == [svo |-> "", frame |-> -1, cmap |-> ""]

Rendered(path, frame, cmap) == [svo |-> path, frame |-> frame, cmap |-> cmap]

ColorMaps == {"turbo", "jet"}

(***************************************************************************)
(* Configurations.  One record shape serves the three entry points; the    *)
(* frame and video entry points read only svo.                             *)
(***************************************************************************)
\* raw is config.rawDepthFormat, "none" when config.saveRawDepth is false
Config(path, raw, colorized, video, previews, aux, fps) ==
    [svo |-> path, raw |-> raw, saveColorized |-> colorized, saveVideo |-> video,
     storePreviews |-> previews, saveAux |-> aux, outputFps |-> fps,
     colorMap |-> "turbo"]

\* the depth configurations a run is started with: every raw format, every
\* toggle on and off, both frame intervals, every kind of source
DepthConfigs ==
    {Config("flight.svo2", "tiff32f", TRUE, TRUE, TRUE, TRUE, 30),
     Config("flight.svo2", "exr", TRUE, FALSE, TRUE, TRUE, 15),
     Config("flight.svo2", "exr", TRUE, FALSE, TRUE, FALSE, 30),
     Config("flight.svo2", "pfm", FALSE, TRUE, TRUE, FALSE, 30),
     Config("flight.svo2", "none", TRUE, FALSE, FALSE, FALSE, 15),
     Config("bad.svo2", "tiff32f", TRUE, TRUE, TRUE, TRUE, 30),
     Config("empty.svo2", "tiff32f", TRUE, TRUE, TRUE, TRUE, 30),
     Config("blank.svo2", "tiff32f", TRUE, FALSE, TRUE, TRUE, 30)}

\* the configurations of the frame and video entry points
PlainConfigs ==
    {Config(p, "none", FALSE, FALSE, FALSE, FALSE, 30) :
        p \in {"bad.svo2", "empty.svo2", "flight.svo2"}}

NoConfig ==
    [svo |-> "", raw |-> "none", saveColorized |-> FALSE, saveVideo |-> FALSE,
     storePreviews |-> FALSE, saveAux |-> FALSE, outputFps |-> 30,
     colorMap |-> "turbo"]

\* std::max(1, static_cast<int>(std::round(sourceFps / config.outputFps)))
FrameInterval(c) ==
    LET q == (2 * SourceFps + c.outputFps) \div (2 * c.outputFps)
    IN  IF q > 1 THEN q ELSE 1

\* the file extension extractDepth writes the raw depth with
RawKind(c) ==
    CASE c.raw = "exr"     -> "depth.exr"
      [] c.raw = "tiff32f" -> "depth.tiff"
      [] c.raw = "pfm"     -> "depth.pfm"
      [] OTHER             -> "depth.bin"

(***************************************************************************)
(* State                                                                   *)
(***************************************************************************)
VARIABLES
    \* ExtractionEngine
    isRunning_, cancelRequested_, latestPreview_, previewVersion_,
    storedPreviews_, storedFrameIndices_, lastExtractionPath_,
    \* the file system: extraction directories created so far, files written
    extractionDirs, disk,
    \* each thread's call: position, entry point, arguments and locals
    th,
    \* GUIApplication; progressMutex_ is its owner while a lock() on it
    \* cannot return, "free" otherwise
    isProcessing_, extractionThread_, ctl, progressMutex_,
    \* history: runs started, reprocess calls made, whether
    \* cancel() was called during the current run, the last reprocess call
    runsStarted, reprocessCalls, cancelAsked, lastReprocess,
    \* a library function under test: its arguments and what it returned
    arg, ret,
    \* a thread in getDepthFloatForStored / getConfidenceForStored /
    \* getRgbForStored: its position and the lastExtractionPath_ it read
    reader,
    \* the function-local statics of the EXR branch of extractDepth, and
    \* history: the EXR saves of the run last seen in that branch
    s_exrWriteAllowed, s_exrWarnedOnce, exrLog,
    \* the lines of Yolo_Training/.frame_counter.json, <<>> while it is absent
    frameCounterFile_,
    \* ExtractionEngine: what the legend of the live preview is drawn from
    latestPreviewInfo_, latestLegend_

engineVars ==
    <<isRunning_, cancelRequested_, latestPreview_, previewVersion_,
      storedPreviews_, storedFrameIndices_, lastExtractionPath_>>

guiVars == <<isProcessing_, extractionThread_, ctl, progressMutex_>>

histVars == <<runsStarted, reprocessCalls, cancelAsked, lastReprocess>>

pureVars == <<arg, ret>>

\* what the extraction entry points of the engine and the GUI's start,
\* cancel and join never touch
exrVars == <<s_exrWriteAllowed, s_exrWarnedOnce, exrLog>>

\* the members getLatestDepthPreviewInfo and getLatestDepthLegend copy out
previewVars == <<latestPreviewInfo_, latestLegend_>>

extraVars == <<pureVars, reader, exrVars, frameCounterFile_, previewVars>>

\* the application's own state
progVars == <<engineVars, extractionDirs, disk, th, guiVars, histVars>>

vars == <<progVars, extraVars>>

\* the engine state later operations consult, as a call finds it on entry
EngineSnapshot ==
    [previews |-> storedPreviews_, indices |-> storedFrameIndices_,
     path |-> lastExtractionPath_, latest |-> latestPreview_,
     version |-> previewVersion_]

\* the snapshot of a freshly constructed engine
NoEntry ==
    [previews |-> <<>>, indices |-> <<>>, path |-> 0, latest |-> EmptyMat,
     version |-> 0]

\* entry is history: the snapshot a depth call took on entry, kept until the
\* call has passed its setup
IdleThread ==
    [pc |-> "idle", op |-> "none", cfg |-> NoConfig, frameCount |-> 0,
     extractedCount |-> 0, extractionPath |-> 0, grabbed |-> 0, grabErrs |-> 0,
     videoOpen |-> FALSE, result |-> NoResult, how |-> "none", calls |-> 0,
     entry |-> NoEntry]

\* history of the last reprocessDepthFrame call: its index argument, its
\* return value (or that it threw), whether the depth came from a raw file,
\* whether it opened the source, and the image it produced
NoReprocess ==
    [index |-> -1, ret |-> FALSE, threw |-> FALSE, fromFile |-> FALSE,
     opened |-> FALSE, image |-> EmptyMat]

\* no library function has been called
NoCall == [fn |-> "none"]

\* the application after construction
InitProgram ==
    /\ isRunning_ = FALSE
    /\ cancelRequested_ = FALSE
    /\ latestPreview_ = EmptyMat
    /\ previewVersion_ = 0
    /\ storedPreviews_ = <<>>
    /\ storedFrameIndices_ = <<>>
    /\ lastExtractionPath_ = 0
    /\ extractionDirs = 0
    /\ disk = {}
    /\ th = [t \in Threads |-> IdleThread]
    /\ isProcessing_ = FALSE
    /\ extractionThread_ = FALSE
    /\ ctl = "ui"
    /\ progressMutex_ = "free"
    /\ runsStarted = 0
    /\ reprocessCalls = 0
    /\ cancelAsked = FALSE
    /\ lastReprocess = NoReprocess

\* history of the EXR saves of one run: the run's directory, the frames that
\* entered an EXR write, which of them was the first to fail (0: none), and
\* the warnings logged
NoExrLog == [run |-> 0, tried |-> 0, failedAt |-> 0, warnings |-> 0]

\* DepthPreviewInfo as default-constructed; of its fields the model keeps
\* the colour map, which stands for the configuration the info was taken from
NoPreviewInfo == [colorMap |-> ""]

\* an empty cv::Mat in latestLegend_
NoLegend == [rows |-> 0, cols |-> 0, cmap |-> ""]

\* the colour bar extractDepth builds: the 256-step gradient through the
\* palette of the named colour map, resized to 256 x 16
LegendStrip(colorMap) == [rows |-> 16, cols |-> 256, cmap |-> colorMap]

\* latestPreviewInfo_ as extractDepth fills it from its configuration
PreviewInfoOf(c) == [colorMap |-> c.colorMap]

\* the statics and the members outside the extraction state as the process
\* starts
InitExr ==
    /\ s_exrWriteAllowed = TRUE
    /\ s_exrWarnedOnce = FALSE
    /\ exrLog = NoExrLog
    /\ frameCounterFile_ = <<>>
    /\ latestPreviewInfo_ = NoPreviewInfo
    /\ latestLegend_ = NoLegend

\* no thread is in a stored-frame getter
NoReader == [pc |-> "idle", seen |-> 0, calls |-> 0]

Init ==
    /\ InitProgram
    /\ InitExr
    /\ reader = NoReader
    /\ arg = NoCall
    /\ ret = NoCall

(***************************************************************************)
(* Helpers of the entry points                                             *)
(***************************************************************************)
\* the thread's call returns res; how names the return path taken
Return(t, res, label) ==
    th' = [th EXCEPT ![t].pc = "done", ![t].result = res, ![t].how = label]

Goto(t, label) == th' = [th EXCEPT ![t].pc = label]

\* updateProgress cannot take progressMutex_: its owner never releases it
ProgressHeld == progressMutex_ # "free"

\* reportProgress(...) and then return res: the callback, GUIApplication::
\* updateProgress, locks progressMutex_ and the call stays in it when the
\* mutex is never released
ReportThenReturn(t, res, label) ==
    IF ProgressHeld THEN Goto(t, "report") ELSE Return(t, res, label)

\* the steps of a call that start with reportProgress(...)
ReportsFirst(t) == th[t].pc \in {"open", "mkdir", "clear"}

\* such a step while progressMutex_ is never released: the call stays in the
\* callback
BlockOnProgress(t) ==
    /\ ReportsFirst(t)
    /\ ProgressHeld
    /\ Goto(t, "report")
    /\ UNCHANGED <<extraVars, engineVars, extractionDirs, disk, guiVars, histVars>>

\* variant: a cancelled run reports the text of a setup failure
CancelledAsSetupFailure == Failure("Failed to create depth video writer")

\* the literal a cancelled run returns
CancelledResult == Failure("Extraction cancelled by user")

\* what() of the exceptions the image writer throws
ExceptionTexts == {"OpenCV: could not write image file", "std::bad_alloc"}

\* a file: directory, kind, output number, and the source frame it holds
File(dir, kind, n, frame) == [dir |-> dir, kind |-> kind, n |-> n, frame |-> frame]

\* writing a file replaces the file of the same name
WriteFiles(d, fs) ==
    {g \in d : ~\E f \in fs : f.dir = g.dir /\ f.kind = g.kind /\ f.n = g.n} \cup fs

HasFile(dir, kind, n) == \E f \in disk : f.dir = dir /\ f.kind = kind /\ f.n = n

\* the files one processed frame leaves before its heatmap is rendered
RawFiles(c, dir, n, frame) ==
    (IF c.raw # "none" THEN {File(dir, RawKind(c), n, frame)} ELSE {})
    \cup (IF c.saveAux
          THEN {File(dir, "rgb", n, frame), File(dir, "conf", n, frame)}
          ELSE {})

\* the files one processed frame leaves once its heatmap is rendered
VizFiles(c, dir, n, frame) ==
    IF c.saveColorized
    THEN {File(dir, "heatmap", n, frame)}
         \cup (IF c.saveVideo THEN {File(dir, "videoframe", n, frame)} ELSE {})
    ELSE {}

(***************************************************************************)
(* The prologue the three entry points share                               *)
(***************************************************************************)
\* variant: the rejected start clears the running flag
CheckRunningClears(t) ==
    /\ th[t].pc = "check"
    /\ IF isRunning_
       THEN /\ Return(t, Failure("Extraction already in progress"), "busy")
            /\ isRunning_' = FALSE
       ELSE /\ Goto(t, "set")
            /\ UNCHANGED isRunning_
    /\ UNCHANGED <<extraVars, cancelRequested_, latestPreview_, previewVersion_,
                   storedPreviews_, storedFrameIndices_, lastExtractionPath_,
                   extractionDirs, disk, guiVars,
                   runsStarted, reprocessCalls, cancelAsked, lastReprocess>>

\* if (isRunning_) return Failure("Extraction already in progress");
CheckRunning(t) ==
    /\ th[t].pc = "check"
    /\ IF isRunning_
       THEN Return(t, Failure("Extraction already in progress"), "busy")
       ELSE Goto(t, "set")
    /\ UNCHANGED <<extraVars, engineVars, extractionDirs, disk, guiVars,
                   runsStarted, reprocessCalls, cancelAsked, lastReprocess>>

\* isRunning_ = true;
SetRunning(t) ==
    /\ th[t].pc = "set"
    /\ isRunning_' = TRUE
    /\ Goto(t, "reset")
    /\ UNCHANGED <<extraVars, cancelRequested_, latestPreview_, previewVersion_,
                   storedPreviews_, storedFrameIndices_, lastExtractionPath_,
                   extractionDirs, disk, guiVars, histVars>>

\* cancelRequested_ = false;
ResetCancel(t) ==
    /\ th[t].pc = "reset"
    /\ cancelRequested_' = FALSE
    /\ Goto(t, "open")
    /\ UNCHANGED <<extraVars, isRunning_, latestPreview_, previewVersion_,
                   storedPreviews_, storedFrameIndices_, lastExtractionPath_,
                   extractionDirs, disk, guiVars, histVars>>

(***************************************************************************)
(* extractDepth                                                            *)
(***************************************************************************)
\* camera.open(initParams)
DepthOpen(t) ==
    /\ th[t].pc = "open" /\ th[t].op = "depth"
    /\ ~ProgressHeld
    /\ IF CanOpen(th[t].cfg.svo)
       THEN /\ Goto(t, "mkdir")
            /\ UNCHANGED isRunning_
       ELSE /\ isRunning_' = FALSE
            /\ Return(t, Failure("Failed to open SVO file with depth mode: "
                                 \o "INVALID SVO FILE"), "setup")
    /\ UNCHANGED <<extraVars, cancelRequested_, latestPreview_, previewVersion_,
                   storedPreviews_, storedFrameIndices_, lastExtractionPath_,
                   extractionDirs, disk, guiVars,
                   runsStarted, reprocessCalls, cancelAsked, lastReprocess>>

\* extractionPath = outputMgr.getExtractionPath(...); lastExtractionPath_ = extractionPath;
DepthMkdir(t) ==
    /\ th[t].pc = "mkdir"
    /\ ~ProgressHeld
    /\ \E created \in BOOLEAN :
         LET path == IF created THEN extractionDirs + 1 ELSE 0 IN
         /\ lastExtractionPath_' = path
         /\ IF path = 0
            THEN /\ isRunning_' = FALSE
                 /\ Return(t, Failure("Failed to create extraction directory"), "setup")
                 /\ UNCHANGED extractionDirs
            ELSE /\ extractionDirs' = path
                 /\ th' = [th EXCEPT ![t].pc = "writer", ![t].extractionPath = path]
                 /\ UNCHANGED isRunning_
    /\ UNCHANGED <<extraVars, cancelRequested_, latestPreview_, previewVersion_,
                   storedPreviews_, storedFrameIndices_, disk, guiVars,
                   runsStarted, reprocessCalls, cancelAsked, lastReprocess>>

\* videoWriter.open(...) when config.saveVideo
DepthWriter(t) ==
    /\ th[t].pc = "writer"
    /\ \E opened \in BOOLEAN :
         IF th[t].cfg.saveVideo /\ ~opened
         THEN /\ isRunning_' = FALSE
              /\ Return(t, Failure("Failed to create depth video writer"), "setup")
         ELSE /\ opened
              /\ th' = [th EXCEPT ![t].pc = "clear",
                                  ![t].videoOpen = th[t].cfg.saveVideo]
              /\ UNCHANGED isRunning_
    /\ UNCHANGED <<extraVars, cancelRequested_, latestPreview_, previewVersion_,
                   storedPreviews_, storedFrameIndices_, lastExtractionPath_,
                   extractionDirs, disk, guiVars,
                   runsStarted, reprocessCalls, cancelAsked, lastReprocess>>

\* variant: the frame loop starts on the store the previous run left
DepthKeepStore(t) ==
    /\ th[t].pc = "clear"
    /\ ~ProgressHeld
    /\ th' = [th EXCEPT ![t].pc = "loop", ![t].frameCount = 0,
                        ![t].extractedCount = 0, ![t].entry = NoEntry]
    /\ UNCHANGED <<extraVars, engineVars, extractionDirs, disk, guiVars, histVars>>

\* storedPreviews_.clear(); storedFrameIndices_.clear();
DepthClear(t) ==
    /\ th[t].pc = "clear"
    /\ ~ProgressHeld
    /\ storedPreviews_' = <<>>
    /\ storedFrameIndices_' = <<>>
    /\ th' = [th EXCEPT ![t].pc = "loop", ![t].frameCount = 0,
                        ![t].extractedCount = 0, ![t].entry = NoEntry]
    /\ UNCHANGED <<extraVars, isRunning_, cancelRequested_, latestPreview_, previewVersion_,
                   lastExtractionPath_, extractionDirs, disk, guiVars, histVars>>

\* variant: the frames skipped are those whose count is a multiple of the
\* interval
SkipsFrameInverted(c, frameCount) ==
    FrameInterval(c) > 1 /\ frameCount % FrameInterval(c) = 0

\* if (frameInterval > 1 && (frameCount % frameInterval) != 0)
SkipsFrame(c, frameCount) ==
    FrameInterval(c) > 1 /\ frameCount % FrameInterval(c) # 0

\* variant: a grab error ends the frame loop, as in extractFrames
AfterGrabErrorBreak(t) == [th EXCEPT ![t].pc = "finish"]

\* if (grabEc != SUCCESS) { ...; continue; }: no local changes; grabErrs is
\* history, the errors met so far, counted up to MaxGrabErrors
AfterGrabError(t) ==
    [th EXCEPT ![t].grabErrs = IF @ < MaxGrabErrors THEN @ + 1 ELSE @]

\* the head of the frame loop: the cancel check, then camera.grab and the
\* interval and empty-depth skips
DepthLoop(t) ==
    /\ th[t].pc = "loop"
    /\ IF cancelRequested_
       THEN /\ isRunning_' = FALSE
            /\ Return(t, CancelledResult, "cancelled")
       ELSE /\ UNCHANGED isRunning_
            /\ \/ /\ ~GrabFailsForever(th[t].cfg.svo)
                  /\ th[t].grabbed = SvoFrames(th[t].cfg.svo)
                  /\ Goto(t, "finish")
               \/ /\ \/ GrabFailsForever(th[t].cfg.svo)
                     \/ th[t].grabErrs < MaxGrabErrors
                  /\ th' = AfterGrabError(t)
               \/ /\ ~GrabFailsForever(th[t].cfg.svo)
                  /\ th[t].grabbed < SvoFrames(th[t].cfg.svo)
                  /\ IF \/ SkipsFrame(th[t].cfg, th[t].frameCount)
                        \/ DepthEmpty(th[t].cfg.svo, th[t].grabbed)
                     THEN th' = [th EXCEPT ![t].grabbed = @ + 1,
                                           ![t].frameCount = @ + 1]
                     ELSE th' = [th EXCEPT ![t].grabbed = @ + 1, ![t].pc = "save"]
    /\ UNCHANGED <<extraVars, cancelRequested_, latestPreview_, previewVersion_,
                   storedPreviews_, storedFrameIndices_, lastExtractionPath_,
                   extractionDirs, disk, guiVars,
                   runsStarted, reprocessCalls, cancelAsked, lastReprocess>>

\* what one EXR save can meet: the file is written, the build has no EXR
\* codec, imwrite returns false, imwrite throws
ExrOutcomes == {"ok", "nocodec", "false", "throws"}

\* variant: a failed EXR write does not disable the later ones
ExrSaveKeepsTrying(allowed, warned, outcome) ==
    [tried |-> TRUE, file |-> outcome = "ok", allowed |-> TRUE, warned |-> warned,
     warnings |-> IF outcome = "ok" THEN 0 ELSE 1]

\* the EXR branch for one frame: whether the frame enters the write, whether
\* the file exists afterwards, the statics afterwards, the warnings logged
ExrSave(allowed, warned, outcome) ==
    IF ~allowed
    THEN [tried |-> FALSE, file |-> FALSE, allowed |-> FALSE, warned |-> warned,
          warnings |-> 0]
    ELSE CASE outcome = "ok" ->
                [tried |-> TRUE, file |-> TRUE, allowed |-> TRUE, warned |-> warned,
                 warnings |-> 0]
           [] outcome = "false" ->
                [tried |-> TRUE, file |-> FALSE, allowed |-> FALSE, warned |-> warned,
                 warnings |-> 1]
           [] OTHER ->
                [tried |-> TRUE, file |-> FALSE, allowed |-> FALSE, warned |-> TRUE,
                 warnings |-> IF warned THEN 0 ELSE 1]

\* the history after one EXR save of the run in directory dir
ExrLogged(dir, r) ==
    LET base == IF exrLog.run = dir THEN exrLog ELSE [NoExrLog EXCEPT !.run = dir]
        tried == base.tried + (IF r.tried THEN 1 ELSE 0)
    IN  [run |-> dir, tried |-> tried,
         failedAt |-> IF base.failedAt = 0 /\ r.tried /\ ~r.file
                      THEN tried ELSE base.failedAt,
         warnings |-> base.warnings + r.warnings]

\* the EXR files the run in directory dir has written
ExrWritten(dir) ==
    IF exrLog.run # dir THEN 0
    ELSE IF exrLog.failedAt = 0 THEN exrLog.tried ELSE exrLog.failedAt - 1

\* if (config.saveRawDepth) { ... }, left RGB, confidence map: the files of
\* the frame written before the heatmap is rendered
SaveRaw(t) ==
    LET c == th[t].cfg
        files == RawFiles(c, th[t].extractionPath, th[t].extractedCount,
                          th[t].frameCount)
    IN  IF RawKind(c) = "depth.exr" /\ c.raw # "none"
        THEN \E outcome \in ExrOutcomes :
                LET r == ExrSave(s_exrWriteAllowed, s_exrWarnedOnce, outcome)
                IN  /\ disk' = WriteFiles(disk,
                                  {f \in files : f.kind # "depth.exr" \/ r.file})
                    /\ s_exrWriteAllowed' = r.allowed
                    /\ s_exrWarnedOnce' = r.warned
                    /\ exrLog' = ExrLogged(th[t].extractionPath, r)
        ELSE /\ disk' = WriteFiles(disk, files)
             /\ UNCHANGED exrVars

\* variant: the cancel flag is also acted on after the raw files are written
DepthSaveThenCancelCheck(t) ==
    /\ th[t].pc = "save"
    /\ SaveRaw(t)
    /\ IF cancelRequested_
       THEN /\ isRunning_' = FALSE
            /\ Return(t, CancelledResult, "cancelled")
       ELSE /\ Goto(t, "viz")
            /\ UNCHANGED isRunning_
    /\ UNCHANGED <<pureVars, reader, frameCounterFile_, previewVars, cancelRequested_,
                   latestPreview_, previewVersion_,
                   storedPreviews_, storedFrameIndices_, lastExtractionPath_,
                   extractionDirs, guiVars, histVars>>

\* the frame's raw depth, left RGB and confidence map are written
DepthSave(t) ==
    /\ th[t].pc = "save"
    /\ SaveRaw(t)
    /\ Goto(t, "viz")
    /\ UNCHANGED <<pureVars, reader, frameCounterFile_, previewVars, engineVars, extractionDirs,
                   guiVars, histVars>>

\* the heatmap is rendered, the live preview and the store are updated, the
\* heatmap and the video frame are written, the counters advance
DepthViz(t) ==
    /\ th[t].pc = "viz"
    /\ LET c == th[t].cfg
           outputImage == Rendered(c.svo, th[t].frameCount, c.colorMap)
       IN
       /\ latestPreview_' = outputImage
       /\ latestPreviewInfo_' = PreviewInfoOf(c)
       /\ latestLegend_' = LegendStrip(c.colorMap)
       /\ previewVersion_' = previewVersion_ + 1
       /\ IF c.storePreviews
          THEN /\ storedPreviews_' = Append(storedPreviews_, outputImage)
               /\ storedFrameIndices_' = Append(storedFrameIndices_, th[t].frameCount)
          ELSE UNCHANGED <<storedPreviews_, storedFrameIndices_>>
       /\ \/ /\ disk' = WriteFiles(disk, VizFiles(c, th[t].extractionPath,
                                                 th[t].extractedCount,
                                                 th[t].frameCount))
             /\ th' = [th EXCEPT ![t].pc = IF /\ (th[t].extractedCount + 1) % 5 = 0
                                                  /\ ProgressHeld
                                               THEN "report" ELSE "loop",
                                 ![t].extractedCount = @ + 1,
                                 ![t].frameCount = @ + 1]
             /\ UNCHANGED isRunning_
          \/ /\ c.saveColorized
             /\ \E what \in ExceptionTexts :
                  Return(t, Failure("Exception: " \o what), "exception")
             /\ isRunning_' = FALSE
             /\ UNCHANGED disk
    /\ UNCHANGED <<pureVars, reader, exrVars, frameCounterFile_, cancelRequested_,
                   lastExtractionPath_, extractionDirs, guiVars,
                   runsStarted, reprocessCalls, cancelAsked, lastReprocess>>

\* variant: no zero-frame check after the loop
DepthFinalResultUnchecked(c, path, extracted) == Success(path, extracted)

\* the result extractDepth returns after the loop
DepthFinalResult(c, path, extracted) ==
    IF extracted = 0
    THEN Failure("No depth frames extracted. Possible causes: invalid SVO file path, file contains 0 frames, or SDK opened live camera instead of SVO. Path: "
                 \o c.svo)
    ELSE Success(path, extracted)

\* after the loop: writers released, metadata written, the result returned
DepthFinish(t) ==
    /\ th[t].pc = "finish" /\ th[t].op = "depth"
    /\ disk' = WriteFiles(disk, {File(th[t].extractionPath, "metadata", -1, -1)})
    /\ isRunning_' = FALSE
    /\ ReportThenReturn(t, DepthFinalResult(th[t].cfg, th[t].extractionPath,
                                            th[t].extractedCount),
                        IF th[t].extractedCount = 0 THEN "zero" ELSE "completed")
    /\ UNCHANGED <<extraVars, cancelRequested_, latestPreview_, previewVersion_,
                   storedPreviews_, storedFrameIndices_, lastExtractionPath_,
                   extractionDirs, guiVars,
                   runsStarted, reprocessCalls, cancelAsked, lastReprocess>>

(***************************************************************************)
(* extractFrames                                                           *)
(***************************************************************************)
\* the path getYoloFramesPath returns (not an extraction directory)
YoloPath == -1

\* Text is a sequence of character codes.
\* isspace()
IsSpace(c) == c \in {9, 10, 11, 12, 13, 32}

\* isdigit()
IsDigit(c) == c \in 48..57

\* printf("%d") of a non-negative number: its decimal digits
RECURSIVE FormatInt(_)
FormatInt(n) ==
    IF n < 10 THEN <<48 + n>> ELSE FormatInt(n \div 10) \o <<48 + (n % 10)>>

\* a white-space directive of fscanf: the position after the run of
\* white-space bytes that starts at pos
RECURSIVE SkipSpace(_, _)
SkipSpace(file, pos) ==
    IF pos <= Len(file) /\ IsSpace(file[pos]) THEN SkipSpace(file, pos + 1) ELSE pos

\* the position after the run of digits that starts at pos
RECURSIVE SkipDigits(_, _)
SkipDigits(file, pos) ==
    IF pos <= Len(file) /\ IsDigit(file[pos]) THEN SkipDigits(file, pos + 1) ELSE pos

\* the number the digits file[from..to-1] spell
RECURSIVE DigitsValue(_, _, _)
DigitsValue(file, from, to) ==
    IF from >= to THEN 0
    ELSE DigitsValue(file, from, to - 1) * 10 + (file[to - 1] - 48)

\* "frame_"
FrameWord == <<102, 114, 97, 109, 101, 95>>

\* "png", the image format of the run
FormatWord == <<112, 110, 103>>

\* "\"last_frame\""
LastFrameKey == <<34, 108, 97, 115, 116, 95, 102, 114, 97, 109, 101, 34>>

\* "  \"updated\": \"\"", the line that carries the date
UpdatedLine == <<32, 32, 34, 117, 112, 100, 97, 116, 101, 100, 34, 58, 32, 34, 34>>

\* std::setw(w) << std::setfill('0') << n: padded on the left, never cut
RECURSIVE ZeroFill(_, _)
ZeroFill(digits, w) ==
    IF Len(digits) >= w THEN digits ELSE ZeroFill(<<48>> \o digits, w)

\* "L_frame_" << setw(6) << setfill('0') << frameNum << "." << config.format
FrameFileName(frameNum) ==
    <<76, 95>> \o FrameWord \o ZeroFill(FormatInt(frameNum), 6) \o <<46>> \o FormatWord

\* whether text goes on with lit at pos
StartsAt(text, pos, lit) ==
    /\ pos + Len(lit) - 1 <= Len(text)
    /\ SubSeq(text, pos, pos + Len(lit) - 1) = lit

\* the pattern frame_(\d{5})_ tried at pos: the number captured, -1 when it
\* does not match there
MatchFrameAt(name, pos) ==
    IF /\ StartsAt(name, pos, FrameWord)
       /\ pos + 11 <= Len(name)
       /\ \A i \in 6..10 : IsDigit(name[pos + i])
       /\ name[pos + 11] = 95
    THEN DigitsValue(name, pos + 6, pos + 11)
    ELSE -1

\* the pattern "last_frame"\s*:\s*(\d+) tried at pos: the number captured, -1
\* when it does not match there
MatchCounterAt(line, pos) ==
    LET colon == SkipSpace(line, pos + Len(LastFrameKey))
        from == SkipSpace(line, colon + 1)
        to == SkipDigits(line, from)
    IN  IF /\ StartsAt(line, pos, LastFrameKey)
           /\ colon <= Len(line)
           /\ line[colon] = 58
           /\ to > from
        THEN DigitsValue(line, from, to)
        ELSE -1

\* std::regex_search takes the leftmost of the positions that match
Leftmost(hits) == CHOOSE p \in hits : \A q \in hits : p <= q

\* std::regex_search(filename, matches, pattern): the capture of the
\* leftmost match, -1 without a match
SearchFrame(name) ==
    LET hits == {p \in 1..Len(name) : MatchFrameAt(name, p) >= 0}
    IN  IF hits = {} THEN -1 ELSE MatchFrameAt(name, Leftmost(hits))

\* std::regex_search(line, matches, counterPattern): the capture of the
\* leftmost match, -1 without a match
SearchCounter(line) ==
    LET hits == {p \in 1..Len(line) : MatchCounterAt(line, p) >= 0}
    IN  IF hits = {} THEN -1 ELSE MatchCounterAt(line, Leftmost(hits))

\* the names of the regular files of a folder
FileNames(d, folderPath) ==
    {FrameFileName(f.n) : f \in {g \in d : g.dir = folderPath /\ g.kind = "L_frame"}}

\* scanForHighestFrameNumber: the highest capture among the folder's files
ScanForHighestFrameNumber(d, folderPath) ==
    LET found == {SearchFrame(name) : name \in FileNames(d, folderPath)}
                 \cup {0}
    IN  CHOOSE m \in found : \A x \in found : x <= m

\* the lines updateGlobalFrameCounter writes
CounterLines(lastFrameNumber) ==
    << <<123>>,
       <<32, 32>> \o LastFrameKey \o <<58, 32>> \o FormatInt(lastFrameNumber) \o <<44>>,
       UpdatedLine,
       <<125>> >>

\* getNextGlobalFrameNumber on folder contents d and counter file lines: the
\* scan of the flight folders, then the first line of the counter file
NextGlobalFrameNumber(d, lines) ==
    LET maxFrameNum == ScanForHighestFrameNumber(d, YoloPath)
        counterValue == IF lines = <<>> THEN -1
                        ELSE SearchCounter(Head(lines))
    IN  (IF counterValue > maxFrameNum THEN counterValue ELSE maxFrameNum) + 1

\* outputMgr.getNextGlobalFrameNumber()
GetNextGlobalFrameNumber == NextGlobalFrameNumber(disk, frameCounterFile_)

\* svo.open() and outputMgr.getYoloFramesPath(...)
FramesSetup(t) ==
    /\ th[t].pc = "open" /\ th[t].op = "frames"
    /\ ~ProgressHeld
    /\ \E created \in BOOLEAN :
         IF ~CanOpen(th[t].cfg.svo)
         THEN /\ created
              /\ isRunning_' = FALSE
              /\ Return(t, Failure("Failed to open SVO file"), "setup")
         ELSE IF ~created
         THEN /\ isRunning_' = FALSE
              /\ Return(t, Failure("Failed to create output directory"), "setup")
         ELSE /\ th' = [th EXCEPT ![t].pc = "f_loop", ![t].extractionPath = YoloPath,
                                  ![t].frameCount = 0, ![t].extractedCount = 0]
              /\ UNCHANGED isRunning_
    /\ UNCHANGED <<extraVars, cancelRequested_, latestPreview_, previewVersion_,
                   storedPreviews_, storedFrameIndices_, lastExtractionPath_,
                   extractionDirs, disk, guiVars,
                   runsStarted, reprocessCalls, cancelAsked, lastReprocess>>

\* while (svo.grab()) { if (shouldCancel()) ...; interval skip; write; count }
\* th.frameCount is svoPosition, th.extractedCount is frameCount of the source
FramesLoop(t) ==
    /\ th[t].pc = "f_loop"
    /\ \/ \* grab() returns false: end of stream
          /\ th[t].grabbed = SvoFrames(th[t].cfg.svo)
          /\ isRunning_' = FALSE
          /\ ReportThenReturn(t, Success(th[t].extractionPath, th[t].extractedCount),
                              "completed")
          /\ UNCHANGED <<disk, frameCounterFile_>>
       \/ \* grab() returns false: any other grab error
          /\ th[t].grabErrs < MaxGrabErrors
          /\ isRunning_' = FALSE
          /\ ReportThenReturn(t, Success(th[t].extractionPath, th[t].extractedCount),
                              "completed")
          /\ UNCHANGED <<disk, frameCounterFile_>>
       \/ /\ th[t].grabbed < SvoFrames(th[t].cfg.svo)
          /\ IF cancelRequested_
             THEN /\ isRunning_' = FALSE
                  /\ Return(t, CancelledResult, "cancelled")
                  /\ UNCHANGED <<disk, frameCounterFile_>>
             ELSE /\ UNCHANGED isRunning_
                  /\ IF th[t].frameCount % FrameInterval(th[t].cfg) # 0
                     THEN /\ th' = [th EXCEPT ![t].grabbed = @ + 1,
                                              ![t].frameCount = @ + 1]
                          /\ UNCHANGED <<disk, frameCounterFile_>>
                     ELSE /\ th' = [th EXCEPT
                                    ![t].pc = IF /\ \/ (th[t].extractedCount + 1) % 10 = 0
                                                    \/ (th[t].frameCount + 1) % 100 = 0
                                                 /\ ProgressHeld
                                              THEN "report" ELSE "f_loop",
                                    ![t].grabbed = @ + 1,
                                    ![t].frameCount = @ + 1,
                                    ![t].extractedCount = @ + 1]
                          /\ disk' = WriteFiles(disk, {File(YoloPath, "L_frame",
                                                             GetNextGlobalFrameNumber,
                                                             th[t].frameCount)})
                          /\ frameCounterFile_' = CounterLines(GetNextGlobalFrameNumber)
    /\ UNCHANGED <<pureVars, reader, exrVars, previewVars, cancelRequested_, latestPreview_,
                   previewVersion_,
                   storedPreviews_, storedFrameIndices_, lastExtractionPath_,
                   extractionDirs, guiVars,
                   runsStarted, reprocessCalls, cancelAsked, lastReprocess>>

(***************************************************************************)
(* extractVideo                                                            *)
(***************************************************************************)
\* svo.open(), outputMgr.getExtractionPath(..., VIDEO), leftWriter.open(...)
VideoSetup(t) ==
    /\ th[t].pc = "open" /\ th[t].op = "video"
    /\ ~ProgressHeld
    /\ \E created \in BOOLEAN, opened \in BOOLEAN :
         IF ~CanOpen(th[t].cfg.svo)
         THEN /\ created /\ opened
              /\ isRunning_' = FALSE
              /\ Return(t, Failure("Failed to open SVO file"), "setup")
              /\ UNCHANGED extractionDirs
         ELSE IF ~created
         THEN /\ opened
              /\ isRunning_' = FALSE
              /\ Return(t, Failure("Failed to create extraction directory"), "setup")
              /\ UNCHANGED extractionDirs
         ELSE IF ~opened
         THEN /\ isRunning_' = FALSE
              /\ Return(t, Failure("Failed to create left video writer"), "setup")
              /\ extractionDirs' = extractionDirs + 1
         ELSE /\ th' = [th EXCEPT ![t].pc = "v_loop",
                                  ![t].extractionPath = extractionDirs + 1,
                                  ![t].frameCount = 0, ![t].videoOpen = TRUE]
              /\ extractionDirs' = extractionDirs + 1
              /\ UNCHANGED isRunning_
    /\ UNCHANGED <<extraVars, cancelRequested_, latestPreview_, previewVersion_,
                   storedPreviews_, storedFrameIndices_, lastExtractionPath_,
                   disk, guiVars,
                   runsStarted, reprocessCalls, cancelAsked, lastReprocess>>

\* while (frameCount < props.totalFrames) { cancel check; grab; write; count }
VideoLoop(t) ==
    /\ th[t].pc = "v_loop"
    /\ IF th[t].frameCount < SvoFrames(th[t].cfg.svo)
       THEN IF cancelRequested_
            THEN /\ isRunning_' = FALSE
                 /\ Return(t, CancelledResult, "cancelled")
                 /\ UNCHANGED disk
            ELSE \/ \* grab() returns false: break
                    /\ th[t].grabErrs < MaxGrabErrors
                    /\ isRunning_' = FALSE
                    /\ ReportThenReturn(t, Success(th[t].extractionPath,
                                                   th[t].frameCount), "completed")
                    /\ UNCHANGED disk
                 \/ /\ th' = [th EXCEPT
                               ![t].pc = IF (th[t].frameCount + 1) % 10 = 0 /\ ProgressHeld
                                         THEN "report" ELSE "v_loop",
                               ![t].grabbed = @ + 1, ![t].frameCount = @ + 1]
                    /\ disk' = WriteFiles(disk, {File(th[t].extractionPath, "videoframe",
                                                       th[t].frameCount,
                                                       th[t].grabbed)})
                    /\ UNCHANGED isRunning_
       ELSE /\ isRunning_' = FALSE
            /\ ReportThenReturn(t, Success(th[t].extractionPath, th[t].frameCount),
                                "completed")
            /\ UNCHANGED disk
    /\ UNCHANGED <<extraVars, cancelRequested_, latestPreview_, previewVersion_,
                   storedPreviews_, storedFrameIndices_, lastExtractionPath_,
                   extractionDirs, guiVars,
                   runsStarted, reprocessCalls, cancelAsked, lastReprocess>>

\* one step of the call thread t is executing
EngineStep(t) ==
    \/ CheckRunning(t) \/ SetRunning(t) \/ ResetCancel(t)
    \/ DepthOpen(t) \/ DepthMkdir(t) \/ DepthWriter(t) \/ DepthClear(t)
    \/ DepthLoop(t) \/ DepthSave(t) \/ DepthViz(t) \/ DepthFinish(t)
    \/ FramesSetup(t) \/ FramesLoop(t)
    \/ VideoSetup(t) \/ VideoLoop(t)

(***************************************************************************)
(* reprocessDepthFrame(storedIndex, cfg, outPreview, overwriteSaved)       *)
(***************************************************************************)
\* getStoredFrameIndexAt(index)
GetStoredFrameIndexAt(index) ==
    IF index < 0 \/ index >= Len(storedFrameIndices_) THEN -1
    ELSE storedFrameIndices_[index + 1]

\* the raw-depth file reprocessDepthFrame looks for
ReprocessRawKinds == {"depth.exr"}

\* the source frame held by the raw-depth file reprocess loads, -1 if none
LoadedRawFrame(storedIndex) ==
    IF lastExtractionPath_ # 0
       /\ \E f \in disk : /\ f.dir = lastExtractionPath_ /\ f.n = storedIndex
                          /\ f.kind \in ReprocessRawKinds
    THEN (CHOOSE f \in disk : /\ f.dir = lastExtractionPath_ /\ f.n = storedIndex
                              /\ f.kind \in ReprocessRawKinds).frame
    ELSE -1

\* the frame a camera opened on path and positioned at framePos grabs, -1 when
\* the grab fails
SeekFrame(path, framePos) ==
    LET pos == IF framePos >= 0 THEN framePos ELSE 0
    IN  IF pos < SvoFrames(path) THEN pos ELSE -1

\* variant: the new image is written to every slot of the store
StoreAfterReprocessAll(storedIndex, outPreview) ==
    [j \in 1..Len(storedPreviews_) |-> outPreview]

\* the store after reprocess wrote outPreview to slot storedIndex
StoreAfterReprocess(storedIndex, outPreview) ==
    IF storedIndex >= 0 /\ storedIndex < Len(storedPreviews_)
    THEN [storedPreviews_ EXCEPT ![storedIndex + 1] = outPreview]
    ELSE storedPreviews_

\* the tail of reprocessDepthFrame: overwrite the heatmap, update latest
\* preview, stored entry and version, return !outPreview.empty()
ReprocessCommit(storedIndex, outPreview, overwriteSaved, fromFile, opened) ==
    /\ disk' = IF overwriteSaved /\ lastExtractionPath_ # 0 /\ outPreview # EmptyMat
               THEN WriteFiles(disk, {File(lastExtractionPath_, "heatmap",
                                           storedIndex, outPreview.frame)})
               ELSE disk
    /\ latestPreview_' = outPreview
    /\ storedPreviews_' = StoreAfterReprocess(storedIndex, outPreview)
    /\ previewVersion_' = previewVersion_ + 1
    /\ lastReprocess' = [index |-> storedIndex, ret |-> outPreview # EmptyMat,
                         threw |-> FALSE, fromFile |-> fromFile, opened |-> opened,
                         image |-> outPreview]

\* an early "return false" of reprocessDepthFrame
ReprocessAbort(storedIndex) ==
    /\ lastReprocess' = [index |-> storedIndex, ret |-> FALSE, threw |-> FALSE,
                         fromFile |-> FALSE, opened |-> TRUE, image |-> EmptyMat]
    /\ UNCHANGED <<disk, latestPreview_, storedPreviews_, previewVersion_>>

\* applyDepthHeatmap throws on the empty depth matrix; nothing catches it
ReprocessThrows(storedIndex) ==
    /\ lastReprocess' = [index |-> storedIndex, ret |-> FALSE, threw |-> TRUE,
                         fromFile |-> FALSE, opened |-> TRUE, image |-> EmptyMat]
    /\ UNCHANGED <<disk, latestPreview_, storedPreviews_, previewVersion_>>

ReprocessDepthFrame(storedIndex, path, cmap, overlayOnRgb, overwriteSaved) ==
    /\ reprocessCalls < MaxReprocess
    /\ reprocessCalls' = reprocessCalls + 1
    /\ LET framePos == GetStoredFrameIndexAt(storedIndex)
           fileFrame == LoadedRawFrame(storedIndex)
       IN  IF fileFrame = -1
           THEN \* no EXR: open the source and seek
                IF ~CanOpen(path) \/ SeekFrame(path, framePos) = -1
                THEN ReprocessAbort(storedIndex)
                ELSE IF DepthEmpty(path, SeekFrame(path, framePos))
                THEN \* the image library either renders an empty matrix to an
                     \* empty image or rejects it with an exception
                     \/ ReprocessCommit(storedIndex, EmptyMat, overwriteSaved,
                                        FALSE, TRUE)
                     \/ ReprocessThrows(storedIndex)
                ELSE ReprocessCommit(
                        storedIndex, Rendered(path, SeekFrame(path, framePos), cmap),
                        overwriteSaved, FALSE, TRUE)
           ELSE \* depth from the EXR; the source is opened for the RGB overlay
                \* base when no left_rgb file is cached
                ReprocessCommit(
                    storedIndex, Rendered(path, fileFrame, cmap), overwriteSaved, TRUE,
                    overlayOnRgb /\ ~HasFile(lastExtractionPath_, "rgb", storedIndex))
    /\ UNCHANGED <<extraVars, isRunning_, cancelRequested_, storedFrameIndices_,
                   lastExtractionPath_, extractionDirs, th, guiVars,
                   runsStarted, cancelAsked>>

\* navIndex_: triggerRerenderSelected returns when it is negative; it may be
\* stale, past the end of the store
NavIndexChoices == 0..MaxFrames

(***************************************************************************)
(* GUIApplication: the control thread                                      *)
(***************************************************************************)
\* startFrameExtraction / startVideoExtraction / startDepthExtraction
StartExtraction(kind) ==
    /\ ctl = "ui"
    /\ ~isProcessing_
    /\ runsStarted < MaxRuns
    /\ runsStarted' = runsStarted + 1
    /\ isProcessing_' = TRUE
    /\ extractionThread_' = TRUE
    /\ cancelAsked' = FALSE
    /\ \E c \in (IF kind = "depth" THEN DepthConfigs ELSE PlainConfigs) :
         th' = [th EXCEPT ![Worker] =
                   [IdleThread EXCEPT !.pc = "check", !.op = kind, !.cfg = c,
                                      !.entry = IF kind = "depth" THEN EngineSnapshot
                                                ELSE NoEntry]]
    /\ lastReprocess' = NoReprocess
    /\ UNCHANGED <<extraVars, engineVars, extractionDirs, disk, ctl, progressMutex_,
                   reprocessCalls>>

\* the Cancel button, drawn while the tab holds a lock_guard on
\* progressMutex_: cancelExtraction() calls engine_->cancel() and then
\* updateProgress(0, "Cancelling..."), which locks progressMutex_ again on
\* the same thread.  Locking a std::mutex its thread owns is undefined: the
\* lock either never returns, with the mutex held, or throws
\* std::system_error, which nothing catches, so the process terminates and
\* the worker thread with it.
CancelExtraction ==
    /\ ctl = "ui"
    /\ isProcessing_
    /\ cancelRequested_' = TRUE
    /\ cancelAsked' = (cancelAsked \/ th[Worker].pc # "done")
    /\ \/ /\ ctl' = "blocked"
          /\ progressMutex_' = "ctl"
          /\ UNCHANGED th
       \/ /\ ctl' = "terminated"
          /\ progressMutex_' = "free"
          /\ th' = [th EXCEPT ![Worker].pc = "killed"]
    /\ UNCHANGED <<extraVars, isRunning_, latestPreview_, previewVersion_, storedPreviews_,
                   storedFrameIndices_, lastExtractionPath_, extractionDirs, disk,
                   isProcessing_, extractionThread_, runsStarted, reprocessCalls,
                   lastReprocess>>

\* checkExtractionComplete(): if (extractionThread_ && !engine_->isRunning()) join
CheckExtractionComplete ==
    /\ ctl = "ui"
    /\ extractionThread_ /\ ~isRunning_
    /\ ctl' = "joining"
    /\ UNCHANGED <<extraVars, engineVars, extractionDirs, disk, th, isProcessing_,
                   extractionThread_, progressMutex_, histVars>>

\* join() returns once the worker's lambda has returned; the thread is reset
\* and isProcessing_ cleared
JoinReturns ==
    /\ ctl = "joining"
    /\ th[Worker].pc = "done"
    /\ ctl' = "ui"
    /\ extractionThread_' = FALSE
    /\ isProcessing_' = FALSE
    /\ th' = [th EXCEPT ![Worker] = IdleThread]
    /\ UNCHANGED <<extraVars, engineVars, extractionDirs, disk, progressMutex_, histVars>>

\* triggerRerenderSelected(): only offered while no extraction is processing
TriggerRerender ==
    /\ ctl = "ui"
    /\ ~isProcessing_
    /\ \E i \in NavIndexChoices, p \in SvoPaths, m \in ColorMaps, o \in BOOLEAN :
         ReprocessDepthFrame(i, p, m, o, TRUE)

Next ==
    \/ \E kind \in {"depth", "frames", "video"} : StartExtraction(kind)
    \/ EngineStep(Worker)
    \/ BlockOnProgress(Worker)
    \/ CancelExtraction
    \/ CheckExtractionComplete
    \/ JoinReturns
    \/ TriggerRerender

Spec == Init /\ [][Next]_vars

(***************************************************************************)
(* The engine's public API called by several threads of one process        *)
(***************************************************************************)
\* the configurations the API threads call with; clip.svo2 holds one frame
ConcDepthConfigs ==
    {Config("clip.svo2", "none", TRUE, TRUE, TRUE, FALSE, 30),
     Config("bad.svo2", "none", TRUE, FALSE, TRUE, FALSE, 30),
     Config("empty.svo2", "none", TRUE, FALSE, TRUE, FALSE, 30)}

ConcPlainConfigs == {Config("clip.svo2", "none", FALSE, FALSE, FALSE, FALSE, 30)}

\* history: the calls made so far
CallsMade == th[1].calls + th[2].calls

\* thread t calls extractFrames, extractVideo or extractDepth
ApiCall(t, kind) ==
    /\ th[t].pc = "idle"
    /\ CallsMade < MaxCalls
    /\ \E c \in (IF kind = "depth" THEN ConcDepthConfigs ELSE ConcPlainConfigs) :
         th' = [th EXCEPT ![t] = [IdleThread EXCEPT !.pc = "check", !.op = kind,
                                                    !.cfg = c,
                                                    !.calls = th[t].calls + 1]]
    /\ cancelAsked' = (cancelAsked /\ t # Worker)
    /\ UNCHANGED <<extraVars, engineVars, extractionDirs, disk, guiVars,
                   runsStarted, reprocessCalls, lastReprocess>>

\* the caller takes the result; the thread may call again
ApiReturn(t) ==
    /\ th[t].pc = "done"
    /\ th' = [th EXCEPT ![t] = [IdleThread EXCEPT !.calls = th[t].calls]]
    /\ UNCHANGED <<extraVars, engineVars, extractionDirs, disk, guiVars, histVars>>

\* ExtractionEngine::cancel(): cancelRequested_ = true, from any thread
ApiCancel ==
    /\ \E t \in Threads : th[t].pc \notin {"idle", "done"}
    /\ cancelRequested_' = TRUE
    /\ cancelAsked' = (cancelAsked \/ th[Worker].pc \notin {"idle", "done"})
    /\ UNCHANGED <<extraVars, isRunning_, latestPreview_, previewVersion_, storedPreviews_,
                   storedFrameIndices_, lastExtractionPath_, extractionDirs, disk,
                   th, guiVars, runsStarted, reprocessCalls, lastReprocess>>

\* the sources one thread calls extractDepth with when the frame loop's
\* termination is examined: also one whose every grab fails
LiveDepthConfigs ==
    ConcDepthConfigs \cup {Config("corrupt.svo2", "none", TRUE, FALSE, TRUE, FALSE, 30)}

\* the worker thread calls an entry point
LiveCall(kind) ==
    /\ th[Worker].pc = "idle"
    /\ th[Worker].calls < MaxCalls
    /\ \E c \in (IF kind = "depth" THEN LiveDepthConfigs ELSE ConcPlainConfigs) :
         th' = [th EXCEPT ![Worker] = [IdleThread EXCEPT !.pc = "check", !.op = kind,
                                                         !.cfg = c,
                                                         !.calls = th[Worker].calls + 1]]
    /\ cancelAsked' = FALSE
    /\ UNCHANGED <<extraVars, engineVars, extractionDirs, disk, guiVars,
                   runsStarted, reprocessCalls, lastReprocess>>

\* one thread calls the entry points one after the other while any thread
\* may call cancel()
NextLive ==
    \/ \E kind \in {"depth", "frames", "video"} : LiveCall(kind)
    \/ EngineStep(Worker)
    \/ ApiReturn(Worker)
    \/ ApiCancel

\* the thread that executes a call keeps being scheduled
SpecLive == Init /\ [][NextLive]_vars /\ WF_vars(EngineStep(Worker))

\* stored-frame getter calls a thread makes
MaxReads == 1

\* a std::string read while another thread assigns it: neither value
TornPath == -2

\* getDepthFloatForStored, getConfidenceForStored, getRgbForStored: the
\* thread starts to read lastExtractionPath_; no lock is taken
GetStoredBegin ==
    /\ reader.pc = "idle"
    /\ reader.calls < MaxReads
    /\ \E t \in Threads : th[t].op = "depth" /\ th[t].pc \notin {"idle", "done"}
    /\ reader' = [reader EXCEPT !.pc = "path", !.seen = lastExtractionPath_]
    /\ UNCHANGED <<pureVars, progVars, exrVars, frameCounterFile_, previewVars>>

\* the read of lastExtractionPath_ ends.  When the string was assigned
\* meanwhile the read raced with the write: it yields the old value, the
\* new value or neither.
GetStoredEnd ==
    /\ reader.pc = "path"
    /\ \E seen \in IF reader.seen = lastExtractionPath_
                    THEN {lastExtractionPath_}
                    ELSE {reader.seen, lastExtractionPath_, TornPath} :
         reader' = [pc |-> "idle", seen |-> seen, calls |-> reader.calls + 1]
    /\ UNCHANGED <<pureVars, progVars, exrVars, frameCounterFile_, previewVars>>

NextConc ==
    \/ \E t \in Threads, kind \in {"depth", "frames", "video"} : ApiCall(t, kind)
    \/ \E t \in Threads : EngineStep(t)
    \/ \E t \in Threads : ApiReturn(t)
    \/ ApiCancel
    \/ GetStoredBegin
    \/ GetStoredEnd

SpecConc == Init /\ [][NextConc]_vars

(***************************************************************************)
(* Depth visualization: applyDepthHeatmap and the colorized branch of      *)
(* extractDepth.  Depths are in decimetres.  An image is a sequence of     *)
(* regions; a region is n pixels that carry the same depth, confidence,    *)
(* left-image colour and previous-frame depth.                             *)
(***************************************************************************)
\* regions per image
MaxRegions == 2

\* float not-a-number and +infinity
NaN == -999999
Inf == 999999

\* float comparisons: every comparison with a NaN is false
FGe(x, y) == x # NaN /\ y # NaN /\ x >= y
FLe(x, y) == x # NaN /\ y # NaN /\ x <= y
FGt(x, y) == x # NaN /\ y # NaN /\ x > y
FLt(x, y) == x # NaN /\ y # NaN /\ x < y
FEq(x, y) == x # NaN /\ y # NaN /\ x = y

Max(x, y) == IF x > y THEN x ELSE y

Black == <<0, 0, 0>>
Grey == <<200, 200, 200>>

\* cv::countNonZero: the pixels of the regions the mask selects
RECURSIVE CountNonZero(_, _, _)
CountNonZero(img, mask, k) ==
    IF k = 0 THEN 0
    ELSE CountNonZero(img, mask, k - 1) + (IF mask[k] THEN img[k].n ELSE 0)

\* depthFloat.rows * depthFloat.cols
TotalPixels(img) == CountNonZero(img, [i \in DOMAIN img |-> TRUE], Len(img))

\* maskValidBase = (d >= minDepth) & (d <= maxDepth) & (d == d) & (d > 0)
MaskValidBase(img, minDepth, maxDepth) ==
    [i \in DOMAIN img |->
        /\ FGe(img[i].d, minDepth)
        /\ FLe(img[i].d, maxDepth)
        /\ FEq(img[i].d, img[i].d)
        /\ FGt(img[i].d, 0)]

\* the mask that ignores the fallback: always the conjunction
MaskValidNoFallback(img, minDepth, maxDepth, withConfidence, threshold) ==
    LET base == MaskValidBase(img, minDepth, maxDepth)
    IN  IF withConfidence
        THEN [i \in DOMAIN img |-> base[i] /\ img[i].conf <= threshold]
        ELSE base

\* maskValid: the base mask and the confidence mask, relaxed to the base mask
\* when too few pixels survive
MaskValid(img, minDepth, maxDepth, withConfidence, threshold) ==
    LET base == MaskValidBase(img, minDepth, maxDepth)
        confMask == [i \in DOMAIN img |-> img[i].conf <= threshold]
        both == [i \in DOMAIN img |-> base[i] /\ confMask[i]]
        validCount == CountNonZero(img, both, Len(img))
        minValid == Max(1000, TotalPixels(img) \div 1000)
    IN  IF withConfidence
        THEN IF validCount < minValid THEN base ELSE both
        ELSE base

\* vals[idx] after std::nth_element: the idx-th smallest valid depth
NthElement(img, mask, idx) ==
    LET valid == {i \in DOMAIN img : mask[i]}
        CountLe(v) ==
            CountNonZero(img, [i \in DOMAIN img |-> mask[i] /\ img[i].d <= v],
                         Len(img))
    IN  CHOOSE v \in {img[i].d : i \in valid} :
            /\ CountLe(v) > idx
            /\ \A i \in valid : img[i].d < v => CountLe(img[i].d) <= idx

\* nth_pct(pct): idx = pct * (vals.size() - 1), pct in hundredths
NthPct(img, mask, pct) ==
    NthElement(img, mask, (pct * (CountNonZero(img, mask, Len(img)) - 1)) \div 100)

\* a = minDepth, b = maxDepth, replaced by the 2nd and 98th percentile of the
\* valid depths when auto-contrast has more than 100 samples spread over
\* more than 0.5 m
EffectiveRange(img, mask, minDepth, maxDepth, autoContrast) ==
    IF autoContrast /\ CountNonZero(img, mask, Len(img)) > 100
    THEN LET p2 == NthPct(img, mask, 2)
             p98 == NthPct(img, mask, 98)
         IN  IF p98 - p2 > 5 THEN <<p2, p98>> ELSE <<minDepth, maxDepth>>
    ELSE <<minDepth, maxDepth>>

\* scaled = (d - a) / (b - a); setTo(0, d < a); setTo(1, d > b);
\* scaled = 1 - scaled; convertTo(8U, 255).  With a = b = d the quotient is
\* 0/0 and the conversion of that NaN to 8 bits is left to the platform.
Scaled8(d, a, b, nan8) ==
    IF FGt(d, b) THEN 0
    ELSE IF FLt(d, a) THEN 255
    ELSE IF b = a THEN nan8
    ELSE (2 * 255 * (b - d) + (b - a)) \div (2 * (b - a))

\* cv::applyColorMap: the library's table, 256 distinct colours none of
\* which is black
ColorMapEntry(v) == <<255 - v, 64 + v \div 2, v>>

\* applyDepthHeatmap: the heatmap, the mask it used and the range it reports
ApplyDepthHeatmap(img, minDepth, maxDepth, autoContrast, withConfidence, threshold, nan8) ==
    LET mask == MaskValid(img, minDepth, maxDepth, withConfidence, threshold)
        ab == EffectiveRange(img, mask, minDepth, maxDepth, autoContrast)
    IN  [fn |-> "applyDepthHeatmap", a |-> ab[1], b |-> ab[2], mask |-> mask,
         pixels |-> [i \in DOMAIN img |->
                        IF mask[i]
                        THEN ColorMapEntry(Scaled8(img[i].d, ab[1], ab[2], nan8))
                        ELSE Black]]

\* emaDepth = temporalAlpha * depthFloat + (1 - temporalAlpha) * emaDepth,
\* temporalAlpha in hundredths
Ema(alpha, d, ema) ==
    IF d = NaN \/ ema = NaN THEN NaN
    ELSE IF d = Inf \/ ema = Inf THEN Inf
    ELSE (alpha * d + (100 - alpha) * ema) \div 100

\* cv::absdiff on floats
AbsDiff(x, y) ==
    IF x = NaN \/ y = NaN \/ (x = Inf /\ y = Inf) THEN NaN
    ELSE IF x = Inf \/ y = Inf THEN Inf
    ELSE IF x > y THEN x - y ELSE y - x

\* depthForViz: the frame's depth, or the running average when temporal
\* smoothing is on and a previous frame exists
DepthForViz(c) ==
    [i \in DOMAIN c.img |->
        [c.img[i] EXCEPT !.d =
            IF c.useTemporalSmooth /\ c.hasPrev
            THEN Ema(c.temporalAlpha, c.img[i].d, c.img[i].prev)
            ELSE c.img[i].d]]

\* motionMask: diff / maxDiff > 0.15 where maxDiff > 1e-3 (before dilation,
\* which only adds pixels)
MotionMask(c) ==
    LET viz == DepthForViz(c)
        diff == [i \in DOMAIN viz |-> AbsDiff(viz[i].d, viz[i].prev)]
        nums == {diff[i] : i \in DOMAIN diff} \ {NaN}
        maxDiff == IF nums = {} THEN 0
                   ELSE CHOOSE m \in nums : \A x \in nums : x <= m
    IN  [i \in DOMAIN viz |->
            /\ c.highlightMotion /\ c.hasPrev
            /\ maxDiff > 0 /\ maxDiff # Inf
            /\ diff[i] # NaN
            /\ 100 * diff[i] > 15 * maxDiff]

\* ch * (1 - motionGain) + 255 * motionGain, motionGain in hundredths
Highlight(colour, gain) ==
    [k \in 1..3 |-> (colour[k] * (100 - gain) + 255 * gain + 50) \div 100]

\* cv::addWeighted(heatmap, alpha, leftBgr, 1 - alpha, 0), alpha the overlay
\* strength in hundredths
AddWeighted(heat, strength, bgr) ==
    [k \in 1..3 |-> (heat[k] * strength + bgr[k] * (100 - strength) + 50) \div 100]

\* the colorized branch of extractDepth for one frame: smoothing, heatmap,
\* motion highlight, overlay
RenderFrame(c, nan8) ==
    LET viz == DepthForViz(c)
        heat == ApplyDepthHeatmap(viz, c.minDepth, c.maxDepth, c.autoContrast,
                                  c.withConfidence, c.confidenceThreshold, nan8)
        motion == MotionMask(c)
        lit == [i \in DOMAIN viz |->
                   IF motion[i] THEN Highlight(heat.pixels[i], c.motionGain)
                   ELSE heat.pixels[i]]
    IN  [fn |-> "extractDepth", a |-> heat.a, b |-> heat.b, mask |-> heat.mask,
         pixels |-> [i \in DOMAIN viz |->
                        IF c.overlayOnRgb /\ c.leftBgr # Black
                        THEN AddWeighted(lit[i], c.overlayStrength, c.leftBgr)
                        ELSE lit[i]]]

\* reprocessDepthFrame's image for one stored frame: the heatmap of the
\* frame's depth and the optional overlay.  The depth comes from the saved
\* EXR file (c.fromExr) or from a re-seek of the source; only the re-seek
\* retrieves the confidence map, the EXR branch passes cv::Mat().
ReprocessFrame(c, nan8) ==
    LET heat == ApplyDepthHeatmap(c.img, c.minDepth, c.maxDepth, c.autoContrast, ~c.fromExr, c.confidenceThreshold, nan8)
    IN  [fn |-> "reprocessDepthFrame", nan8 |-> nan8, a |-> heat.a, b |-> heat.b,
         mask |-> heat.mask,
         pixels |-> [i \in DOMAIN c.img |->
                        IF c.overlayOnRgb /\ c.leftBgr # Black
                        THEN AddWeighted(heat.pixels[i], c.overlayStrength, c.leftBgr)
                        ELSE heat.pixels[i]]]

\* the inputs the transform is exercised on
HeatmapRegions ==
    [d : {NaN, Inf, 0, 10, 30}, conf : {20, 90}, n : {1, 1500, 2000000},
     prev : {10}]

HeatmapCalls ==
    [fn : {"applyDepthHeatmap"}, img : [1..MaxRegions -> HeatmapRegions],
     minDepth : {10, 400}, maxDepth : {10, 400}, autoContrast : BOOLEAN,
     withConfidence : BOOLEAN, confidenceThreshold : {60}]

FrameRegions ==
    [d : {NaN, Inf, 0, -5, 10, 30}, conf : {20}, n : {1}, prev : {10, 30}]

FrameCalls ==
    [fn : {"extractDepth"}, img : [1..MaxRegions -> FrameRegions],
     minDepth : {10}, maxDepth : {400}, autoContrast : {FALSE},
     withConfidence : {TRUE}, confidenceThreshold : {60},
     useTemporalSmooth : BOOLEAN, temporalAlpha : {30}, hasPrev : BOOLEAN,
     highlightMotion : BOOLEAN, motionGain : {60},
     overlayOnRgb : BOOLEAN, overlayStrength : {50, 100}, leftBgr : {Grey}]

ReprocessRegions ==
    [d : {NaN, 10, 30}, conf : {20, 90}, n : {1, 1500}, prev : {10}]

ReprocessCalls ==
    [fn : {"reprocessDepthFrame"}, img : [1..MaxRegions -> ReprocessRegions],
     fromExr : BOOLEAN,
     minDepth : {10}, maxDepth : {400}, autoContrast : {FALSE},
     confidenceThreshold : {60},
     useTemporalSmooth : BOOLEAN, highlightMotion : BOOLEAN,
     overlayOnRgb : BOOLEAN, overlayStrength : {50}, leftBgr : {Grey}]

InitViz ==
    /\ InitProgram
    /\ InitExr
    /\ reader = NoReader
    /\ arg \in HeatmapCalls \cup FrameCalls \cup ReprocessCalls
    /\ ret = NoCall

\* one call of applyDepthHeatmap
HeatmapCall ==
    /\ arg.fn = "applyDepthHeatmap"
    /\ ret = NoCall
    /\ \E nan8 \in {0, 255} :
          ret' = ApplyDepthHeatmap(arg.img, arg.minDepth, arg.maxDepth,
                                   arg.autoContrast, arg.withConfidence,
                                   arg.confidenceThreshold, nan8)
    /\ UNCHANGED <<arg, progVars, reader, exrVars, frameCounterFile_, previewVars>>

\* one frame through the colorized branch of extractDepth
FrameCall ==
    /\ arg.fn = "extractDepth"
    /\ ret = NoCall
    /\ \E nan8 \in {0, 255} : ret' = RenderFrame(arg, nan8)
    /\ UNCHANGED <<arg, progVars, reader, exrVars, frameCounterFile_, previewVars>>

\* one stored frame through reprocessDepthFrame
ReprocessCall ==
    /\ arg.fn = "reprocessDepthFrame"
    /\ ret = NoCall
    /\ \E nan8 \in {0, 255} : ret' = ReprocessFrame(arg, nan8)
    /\ UNCHANGED <<arg, progVars, reader, exrVars, frameCounterFile_, previewVars>>

NextViz ==
    \/ HeatmapCall
    \/ FrameCall
    \/ ReprocessCall

SpecViz == InitViz /\ [][NextViz]_vars

(***************************************************************************)
(* The temporal state of extractDepth over consecutive runs of one engine. *)
(* ret holds the call: its configuration, the depth frames it has          *)
(* processed, its accumulators, and what the last frame's visualization    *)
(* input and motion mask were.  A depth frame is one depth per region.     *)
(***************************************************************************)
\* frames one run processes
MaxRunFrames == 2

\* runs made on the engine one after the other
TemporalRuns == 2

\* cv::Mat(): an accumulator that holds no frame
NoDepth == <<>>

TemporalFrames == [1..MaxRegions -> {NaN, 10, 30}]

TemporalConfigs == [useTemporalSmooth : BOOLEAN, highlightMotion : BOOLEAN]

\* variant: the accumulators outlive the call
TemporalStateKept(left) == left

\* cv::Mat emaDepth; cv::Mat prevDepthForMotion; locals of extractDepth,
\* whatever the accumulators of the previous call held when it returned
TemporalStateAtEntry(left) == NoDepth

\* the frame as the colorized branch sees it: prev is the accumulator
\* (emaDepth and prevDepthForMotion hold the same frame, the last depthForViz,
\* whenever both are in use)
FrameInput(cfg, depth, prev) ==
    [fn |-> "extractDepth",
     img |-> [i \in 1..MaxRegions |->
                 [d |-> depth[i], conf |-> 20, n |-> 1,
                  prev |-> IF prev = NoDepth THEN 0 ELSE prev[i]]],
     minDepth |-> 10, maxDepth |-> 400, autoContrast |-> FALSE,
     withConfidence |-> TRUE, confidenceThreshold |-> 60,
     useTemporalSmooth |-> cfg.useTemporalSmooth, temporalAlpha |-> 30,
     hasPrev |-> prev # NoDepth,
     highlightMotion |-> cfg.highlightMotion, motionGain |-> 60,
     overlayOnRgb |-> FALSE, overlayStrength |-> 100, leftBgr |-> Grey]

\* depthForViz of the frame, as depths
VizDepths(cfg, depth, prev) ==
    LET viz == DepthForViz(FrameInput(cfg, depth, prev))
    IN  [i \in 1..MaxRegions |-> viz[i].d]

\* the accumulator after the run has processed the frames of seen, from
\* empty accumulators: prevDepthForMotion = depthForViz.clone()
RECURSIVE AccumulatorAfter(_, _)
AccumulatorAfter(cfg, seen) ==
    IF seen = <<>> THEN NoDepth
    ELSE VizDepths(cfg, seen[Len(seen)],
                   AccumulatorAfter(cfg, SubSeq(seen, 1, Len(seen) - 1)))

NoTemporalRun ==
    [fn |-> "temporal", pc |-> "idle", run |-> 0,
     cfg |-> [useTemporalSmooth |-> FALSE, highlightMotion |-> FALSE],
     seen |-> <<>>, prev |-> NoDepth, viz |-> NoDepth, motion |-> <<>>]

InitTemporal ==
    /\ InitProgram
    /\ InitExr
    /\ reader = NoReader
    /\ arg = [fn |-> "temporal"]
    /\ ret = NoTemporalRun

\* extractDepth is entered: its locals are constructed
TemporalRunStart ==
    /\ ret.fn = "temporal" /\ ret.pc = "idle"
    /\ ret.run < TemporalRuns
    /\ \E cfg \in TemporalConfigs :
          ret' = [ret EXCEPT !.pc = "loop", !.run = @ + 1, !.cfg = cfg,
                             !.seen = <<>>, !.viz = NoDepth, !.motion = <<>>,
                             !.prev = TemporalStateAtEntry(ret.prev)]
    /\ UNCHANGED <<arg, progVars, reader, exrVars, frameCounterFile_, previewVars>>

\* one frame through the smoothing and motion steps of the colorized branch
TemporalFrame ==
    /\ ret.fn = "temporal" /\ ret.pc = "loop"
    /\ Len(ret.seen) < MaxRunFrames
    /\ \E depth \in TemporalFrames :
          LET c == FrameInput(ret.cfg, depth, ret.prev)
              viz == VizDepths(ret.cfg, depth, ret.prev)
          IN  ret' = [ret EXCEPT !.seen = Append(@, depth), !.viz = viz,
                                 !.motion = MotionMask(c), !.prev = viz]
    /\ UNCHANGED <<arg, progVars, reader, exrVars, frameCounterFile_, previewVars>>

\* extractDepth returns; prev keeps what its accumulators held
TemporalRunEnd ==
    /\ ret.fn = "temporal" /\ ret.pc = "loop"
    /\ ret' = [ret EXCEPT !.pc = "idle", !.seen = <<>>, !.viz = NoDepth,
                          !.motion = <<>>]
    /\ UNCHANGED <<arg, progVars, reader, exrVars, frameCounterFile_, previewVars>>

NextTemporal ==
    \/ TemporalRunStart
    \/ TemporalFrame
    \/ TemporalRunEnd

SpecTemporal == InitTemporal /\ [][NextTemporal]_vars

(***************************************************************************)
(* writePFM and readPFM.  A file is a sequence of bytes; a frame is its    *)
(* width, its height and its samples, each sample four bytes.              *)
(***************************************************************************)
\* widest and highest frame
MaxCols == 2
MaxRows == 2

\* the sample values frames are built from: 1.0f, a float whose first byte
\* is a space, a float whose first two bytes are line feeds, a float made of
\* letters
PfmSamples == {<<0, 0, 128, 63>>, <<32, 0, 32, 65>>, <<10, 10, 200, 66>>,
               <<65, 66, 67, 68>>}

\* cv::Mat(): the empty matrix
NoMat == [cols |-> 0, rows |-> 0, data |-> <<>>]

PfmFrames ==
    UNION {{[cols |-> c, rows |-> r, data |-> smp] :
               smp \in [1..(c * r) -> PfmSamples]} :
           c \in 1..MaxCols, r \in 1..MaxRows}

\* the bytes of the samples in order
RECURSIVE SampleBytes(_)
SampleBytes(data) ==
    IF data = <<>> THEN <<>> ELSE Head(data) \o SampleBytes(Tail(data))

\* writePFM: "Pf\n%d %d\n-1.0\n" and the samples; no file for an empty frame
WritePFM(depth) ==
    IF depth = NoMat
    THEN [fn |-> "writePFM", ok |-> FALSE, file |-> <<>>]
    ELSE [fn |-> "writePFM", ok |-> TRUE,
          file |-> <<80, 102, 10>> \o FormatInt(depth.cols) \o <<32>>
                   \o FormatInt(depth.rows) \o <<10, 45, 49, 46, 48, 10>>
                   \o SampleBytes(depth.data)]

\* fscanf("%d"): skips white space, reads digits; ok is false when there is
\* no digit
ScanInt(file, pos) ==
    LET from == SkipSpace(file, pos)
        to == SkipDigits(file, from)
    IN  [ok |-> to > from, value |-> DigitsValue(file, from, to), pos |-> to]

\* fscanf("%f"): skips white space, reads sign, digits, point, digits
ScanFloat(file, pos) ==
    LET from == SkipSpace(file, pos)
        sign == IF from <= Len(file) /\ file[from] \in {43, 45}
                THEN from + 1 ELSE from
        int == SkipDigits(file, sign)
        frac == IF int <= Len(file) /\ file[int] = 46
                THEN SkipDigits(file, int + 1) ELSE int
    IN  [ok |-> int > sign \/ frac > int + 1, pos |-> frac]

\* the samples a byte sequence holds, four bytes each
RECURSIVE Samples(_, _, _)
Samples(file, pos, count) ==
    IF count = 0 THEN <<>>
    ELSE <<SubSeq(file, pos, pos + 3)>> \o Samples(file, pos + 4, count - 1)

\* the tail of readPFM after the header: fread of width * height floats
ReadSamples(file, pos, width, height) ==
    LET count == width * height
        avail == IF pos > Len(file) THEN 0 ELSE (Len(file) - pos + 1) \div 4
        read == IF avail < count THEN avail ELSE count
    IN  IF read # count THEN NoMat
        ELSE [cols |-> width, rows |-> height, data |-> Samples(file, pos, count)]

\* readPFM: "Pf", fscanf("%d %d\n"), fscanf("%f\n"), fread
ReadPFM(file) ==
    IF Len(file) < 2 \/ file[1] # 80 \/ file[2] # 102 THEN NoMat
    ELSE LET w == ScanInt(file, 3)
             h == ScanInt(file, SkipSpace(file, w.pos))
             s == ScanFloat(file, SkipSpace(file, h.pos))
         IN  IF ~w.ok \/ ~h.ok THEN NoMat
             ELSE IF ~s.ok THEN NoMat
             ELSE ReadSamples(file, SkipSpace(file, s.pos), w.value, h.value)

InitPfm ==
    /\ InitProgram
    /\ InitExr
    /\ reader = NoReader
    /\ arg \in [fn : {"writePFM"}, depth : PfmFrames]
    /\ ret = NoCall

\* writePFM(path, depth)
WritePfmCall ==
    /\ arg.fn = "writePFM"
    /\ ret = NoCall
    /\ ret' = WritePFM(arg.depth)
    /\ UNCHANGED <<arg, progVars, reader, exrVars, frameCounterFile_, previewVars>>

\* readPFM(path) on the file writePFM left
ReadPfmCall ==
    /\ ret.fn = "writePFM"
    /\ ret.ok
    /\ ret' = [fn |-> "readPFM", file |-> ret.file, mat |-> ReadPFM(ret.file)]
    /\ UNCHANGED <<arg, progVars, reader, exrVars, frameCounterFile_, previewVars>>

NextPfm ==
    \/ WritePfmCall
    \/ ReadPfmCall

SpecPfm == InitPfm /\ [][NextPfm]_vars

(***************************************************************************)
(* The progress values of the three frame loops.  A call is the entry      *)
(* point, the total the source reports, the frames it delivers and the     *)
(* frame interval; ret holds the loop's counters and the value last passed *)
(* to the progress callback.  A float is the ratio num / den; den = 0 is   *)
(* the result of a division by zero (infinity or NaN).                     *)
(***************************************************************************)
\* frames a source delivers, and the totals it reports
MaxStream == 5

Ratio(num, den) == [num |-> num, den |-> den]

\* 0.0f <= progress && progress <= 1.0f
InUnit(p) == p.den > 0 /\ 0 <= p.num /\ p.num <= p.den

\* the literal n / 100
Hundredths(n) == Ratio(n, 100)

\* float denom = (totalFrames > 1 ? totalFrames : frameCount + 1);
\* float progress = 0.15f + (0.85f * (frameCount / denom));
DepthProgress(frameCount, totalFrames) ==
    LET denom == IF totalFrames > 1 THEN totalFrames ELSE frameCount + 1
    IN  Ratio(15 * denom + 85 * frameCount, 100 * denom)

\* float progress = 0.1f + (0.9f * (svoPosition / static_cast<float>(props.totalFrames)));
FramesProgress(svoPosition, totalFrames) ==
    Ratio(10 * totalFrames + 90 * svoPosition, 100 * totalFrames)

\* float progress = 0.15f + (0.85f * (frameCount / static_cast<float>(props.totalFrames)));
VideoProgress(frameCount, totalFrames) ==
    Ratio(15 * totalFrames + 85 * frameCount, 100 * totalFrames)

ProgressFns == {"extractDepth", "extractFrames", "extractVideo"}

\* the calls: every entry point, every reported total, every stream length,
\* both frame intervals
ProgressCalls ==
    [fn : ProgressFns, totalFrames : 0..MaxStream, delivered : 0..MaxStream,
     frameInterval : {1, 2}]

\* the call as it enters its frame loop, after the last report of its setup;
\* frameCount is svoPosition in extractFrames, extractedCount is its frameCount
LoopEntry(call) ==
    [fn |-> call.fn, pc |-> "loop", grabbed |-> 0, frameCount |-> 0,
     extractedCount |-> 0, reports |-> 0,
     progress |-> IF call.fn = "extractFrames" THEN Hundredths(10)
                  ELSE Hundredths(15)]

InitProgress ==
    /\ InitProgram
    /\ InitExr
    /\ reader = NoReader
    /\ arg \in ProgressCalls
    /\ ret = LoopEntry(arg)

\* one iteration of the loop of extractDepth, or its reports after the loop
DepthProgressStep ==
    /\ ret.fn = "extractDepth" /\ ret.pc = "loop"
    /\ IF ret.grabbed = arg.delivered
       THEN ret' = [ret EXCEPT !.pc = "done", !.reports = @ + 1,
                               !.progress = IF ret.extractedCount = 0
                                            THEN Hundredths(0)
                                            ELSE Hundredths(100)]
       ELSE IF arg.frameInterval > 1 /\ ret.frameCount % arg.frameInterval # 0
       THEN ret' = [ret EXCEPT !.grabbed = @ + 1, !.frameCount = @ + 1]
       ELSE IF (ret.extractedCount + 1) % 5 = 0
       THEN ret' = [ret EXCEPT !.grabbed = @ + 1, !.frameCount = @ + 1,
                               !.extractedCount = @ + 1, !.reports = @ + 1,
                               !.progress = DepthProgress(ret.frameCount + 1,
                                                          arg.totalFrames)]
       ELSE ret' = [ret EXCEPT !.grabbed = @ + 1, !.frameCount = @ + 1,
                               !.extractedCount = @ + 1]
    /\ UNCHANGED <<arg, progVars, reader, exrVars, frameCounterFile_, previewVars>>

\* one iteration of the loop of extractFrames (cameraMode "left"), or its
\* report after the loop; retrieved is err == sl::ERROR_CODE::SUCCESS
FramesProgressStep ==
    /\ ret.fn = "extractFrames" /\ ret.pc = "loop"
    /\ IF ret.grabbed = arg.delivered
       THEN ret' = [ret EXCEPT !.pc = "done", !.reports = @ + 1,
                               !.progress = Hundredths(100)]
       ELSE IF ret.frameCount % arg.frameInterval # 0
       THEN ret' = [ret EXCEPT !.grabbed = @ + 1, !.frameCount = @ + 1]
       ELSE \E retrieved \in BOOLEAN :
              LET extracted == ret.extractedCount + (IF retrieved THEN 1 ELSE 0)
                  svoPosition == ret.frameCount + 1
              IN  IF extracted % 10 = 0 \/ svoPosition % 100 = 0
                  THEN ret' = [ret EXCEPT !.grabbed = @ + 1,
                                          !.frameCount = svoPosition,
                                          !.extractedCount = extracted,
                                          !.reports = @ + 1,
                                          !.progress = FramesProgress(svoPosition,
                                                                      arg.totalFrames)]
                  ELSE ret' = [ret EXCEPT !.grabbed = @ + 1,
                                          !.frameCount = svoPosition,
                                          !.extractedCount = extracted]
    /\ UNCHANGED <<arg, progVars, reader, exrVars, frameCounterFile_, previewVars>>

\* one iteration of the loop of extractVideo, or its report after the loop
VideoProgressStep ==
    /\ ret.fn = "extractVideo" /\ ret.pc = "loop"
    /\ IF ret.frameCount < arg.totalFrames /\ ret.grabbed < arg.delivered
       THEN IF (ret.frameCount + 1) % 10 = 0
            THEN ret' = [ret EXCEPT !.grabbed = @ + 1, !.frameCount = @ + 1,
                                    !.extractedCount = @ + 1, !.reports = @ + 1,
                                    !.progress = VideoProgress(ret.frameCount + 1,
                                                               arg.totalFrames)]
            ELSE ret' = [ret EXCEPT !.grabbed = @ + 1, !.frameCount = @ + 1,
                                    !.extractedCount = @ + 1]
       ELSE ret' = [ret EXCEPT !.pc = "done", !.reports = @ + 1,
                               !.progress = Hundredths(100)]
    /\ UNCHANGED <<arg, progVars, reader, exrVars, frameCounterFile_, previewVars>>

NextProgress ==
    \/ DepthProgressStep
    \/ FramesProgressStep
    \/ VideoProgressStep

SpecProgress == InitProgress /\ [][NextProgress]_vars

(***************************************************************************)
(* Properties                                                              *)
(***************************************************************************)

\* C1: for any interleaving of concurrent calls to the three entry points,
\* at most one call is past the "already in progress" check at a time.
C1_AtMostOnePastCheck ==
    \A t \in Threads, u \in Threads :
        t # u => ~(/\ th[t].pc \notin {"idle", "check", "done"}
                   /\ th[u].pc \notin {"idle", "check", "done"})

\* C2: a cancel() called after the run was started and before it returned is
\* never lost: the next frame-loop check after it returns the cancelled
\* result, unless the loop meets end-of-stream first; the run does not go on
\* to process another frame.
C2_CancelNeverLost ==
    [][(/\ cancelAsked
        /\ th[Worker].pc \in {"loop", "f_loop", "v_loop"}
        /\ th'[Worker] # th[Worker])
       => \/ th'[Worker].how = "cancelled"
          \/ th'[Worker].pc \in {"finish", "report"}
          \/ th'[Worker].how = "completed"]_vars

C4_CancelledResultDistinct ==
    \A t \in Threads, u \in Threads :
        (/\ th[t].pc = "done" /\ th[t].how = "cancelled"
         /\ th[u].pc = "done" /\ th[u].how \in {"setup", "zero", "exception"})
        => th[t].result # th[u].result

\* one call has returned cancelled while another has returned from a caught
\* exception
C4_Witness ==
    \E t \in Threads, u \in Threads :
        /\ th[t].pc = "done" /\ th[t].how = "cancelled"
        /\ th[u].pc = "done" /\ th[u].how = "exception"

\* C5: extractDepth never returns success with zero frames; a run that
\* reaches end-of-stream with no frame extracted returns a failure whose
\* message contains the source path.
C5_DepthZeroFramesFails ==
    LET w == th[Worker]
    IN  (w.op = "depth" /\ w.pc = "done")
        => /\ w.result.success => w.result.framesProcessed > 0
           /\ (w.how \in {"zero", "completed"} /\ w.extractedCount = 0)
              => /\ ~w.result.success
                 /\ Contains(w.result.errorMessage, w.cfg.svo)

\* a depth run grabbed a frame, skipped it, met end-of-stream and returned
C5_Witness ==
    LET w == th[Worker]
    IN  /\ w.op = "depth" /\ w.pc = "done" /\ w.how = "zero"
        /\ w.grabbed = 1 /\ w.extractedCount = 0

\* C6: a run of extractFrames or extractVideo that extracted zero frames
\* returns a failure, never a success with framesProcessed = 0.
C6_PlainZeroFramesFails ==
    LET w == th[Worker]
    IN  (w.op \in {"frames", "video"} /\ w.pc = "done" /\ w.result.success)
        => w.result.framesProcessed > 0

\* C7: a depth run that fails during setup returns a failure before any frame
\* is grabbed and leaves stored previews, stored frame indices, last
\* extraction path, latest preview and version as they were on entry.
C7_SetupFailureLeavesState ==
    LET w == th[Worker]
    IN  (w.op = "depth" /\ w.pc = "done" /\ w.how = "setup")
        => /\ ~w.result.success
           /\ w.grabbed = 0
           /\ EngineSnapshot = w.entry

\* C8: whenever reprocessDepthFrame returns false, the stored previews, the
\* latest preview and the preview version are unchanged.
C8_FalseLeavesStateUnchanged ==
    [][(/\ reprocessCalls' = reprocessCalls + 1
        /\ ~lastReprocess'.ret /\ ~lastReprocess'.threw)
       => UNCHANGED <<storedPreviews_, latestPreview_, previewVersion_>>]_vars

\* C9: a reprocessDepthFrame(i, cfg) that returns true, for i a valid index
\* of the store, writes the newly rendered image of the frame at index i to
\* stored preview i and to the latest preview and increments the version;
\* every other stored preview, the number of stored previews and the stored
\* frame indices are unchanged.
C9_ReprocessReplacesOneEntry ==
    [][(/\ reprocessCalls' = reprocessCalls + 1
        /\ lastReprocess'.ret
        /\ lastReprocess'.index < Len(storedPreviews_))
       => LET i == lastReprocess'.index + 1
              image == lastReprocess'.image
          IN  /\ image # EmptyMat
              /\ image.frame = storedFrameIndices_[i]
              /\ storedPreviews_'[i] = image
              /\ latestPreview_' = image
              /\ previewVersion_' = previewVersion_ + 1
              /\ Len(storedPreviews_') = Len(storedPreviews_)
              /\ \A j \in 1..Len(storedPreviews_) :
                    j # i => storedPreviews_'[j] = storedPreviews_[j]
              /\ storedFrameIndices_' = storedFrameIndices_]_vars

\* a stored frame of a two-frame store was re-rendered with another colour
\* map: its entry and the latest preview show the new map, the other entry
\* the old one
C9_Witness ==
    /\ lastReprocess.ret
    /\ Len(storedPreviews_) = 2
    /\ lastReprocess.index \in {0, 1}
    /\ storedPreviews_[lastReprocess.index + 1].cmap = "jet"
    /\ latestPreview_.cmap = "jet"
    /\ storedPreviews_[2 - lastReprocess.index].cmap = "turbo"

\* C10: when a raw-depth file in any format the run writes (TIFF, PFM, EXR)
\* exists for the stored index, reprocessDepthFrame takes the depth from it
\* and does not open the source.
C10_RawFilePreventsReopen ==
    [][(/\ reprocessCalls' = reprocessCalls + 1
        /\ \E f \in disk : /\ f.dir = lastExtractionPath_
                           /\ f.n = lastReprocess'.index
                           /\ f.kind \in {"depth.tiff", "depth.pfm", "depth.exr"})
       => /\ lastReprocess'.fromFile
          /\ ~lastReprocess'.opened]_vars

\* C11: in every output image, a pixel whose depth is not a finite positive
\* number (NaN, infinite, zero or negative) is exactly black, whatever the
\* flags: temporal smoothing, motion highlighting, RGB overlay below full
\* strength.
C11_InvalidPixelsBlack ==
    ret.fn \in {"applyDepthHeatmap", "extractDepth"}
    => \A i \in DOMAIN arg.img :
           (arg.img[i].d \in {NaN, Inf} \/ arg.img[i].d <= 0)
           => ret.pixels[i] = Black

\* C12: the effective range (a, b) the transform uses and reports satisfies
\* a < b for every configured minimum and maximum depth, a minimum at or
\* above the maximum included, with auto-contrast on or off.
C12_EffectiveRangeOrdered ==
    ret.fn \in {"applyDepthHeatmap", "extractDepth"} => ret.a < ret.b

\* C13: with a confidence map, the validity mask is the base validity and
\* "confidence <= threshold" when that conjunction keeps at least
\* max(1000, totalPixels / 1000) pixels, and the base validity alone
\* otherwise; a confidence map that exceeds the threshold everywhere gives
\* the output of a call without confidence map.
C13_ConfidenceFallback ==
    ret.fn = "applyDepthHeatmap" /\ arg.withConfidence
    => LET img == arg.img
           base == [i \in DOMAIN img |->
                       /\ img[i].d \notin {NaN, Inf}
                       /\ img[i].d > 0
                       /\ arg.minDepth <= img[i].d
                       /\ img[i].d <= arg.maxDepth]
           both == [i \in DOMAIN img |->
                       base[i] /\ img[i].conf <= arg.confidenceThreshold]
           kept == CountNonZero(img, both, Len(img))
           total == CountNonZero(img, [i \in DOMAIN img |-> TRUE], Len(img))
           floor == IF total \div 1000 > 1000 THEN total \div 1000 ELSE 1000
       IN  /\ kept >= floor => ret.mask = both
           /\ kept < floor => ret.mask = base
           /\ (\A i \in DOMAIN img : img[i].conf > arg.confidenceThreshold)
              => \E nan8 \in {0, 255} :
                    ret = ApplyDepthHeatmap(img, arg.minDepth, arg.maxDepth,
                                            arg.autoContrast, FALSE,
                                            arg.confidenceThreshold, nan8)

\* the conjunction keeps 1000 pixels or more and still fewer than a
\* thousandth of the image, and the mask returned is the base mask
C13_Witness ==
    /\ ret.fn = "applyDepthHeatmap"
    /\ arg.withConfidence
    /\ LET img == arg.img
           both == [i \in DOMAIN img |->
                       /\ ret.mask[i]
                       /\ img[i].conf <= arg.confidenceThreshold]
           kept == CountNonZero(img, both, Len(img))
       IN  /\ kept >= 1000
           /\ kept < TotalPixels(img) \div 1000
           /\ ret.mask # both

\* the worker's depth call has passed the reset of the store
PastClear(w) ==
    /\ w.op = "depth"
    /\ \/ w.pc \in {"loop", "save", "viz", "finish"}
       \/ /\ w.pc = "done"
          /\ w.how \in {"cancelled", "exception", "zero", "completed"}

\* the store against the worker's run, in one state
StoreMatchesRun ==
    LET w == th[Worker]
        n == Len(storedPreviews_)
    IN  /\ Len(storedFrameIndices_) = n
        /\ \A i, j \in 1..Len(storedFrameIndices_) :
              i < j => storedFrameIndices_[i] < storedFrameIndices_[j]
        /\ (PastClear(w) /\ w.cfg.storePreviews)
           => /\ n \in {w.extractedCount, w.extractedCount + 1}
              /\ n = w.extractedCount + 1 => w.pc = "done" /\ w.how = "exception"
              /\ \A i \in 1..n :
                    /\ storedPreviews_[i] =
                          Rendered(w.cfg.svo, storedFrameIndices_[i], w.cfg.colorMap)
                    /\ \A f \in disk :
                          (f.dir = w.extractionPath /\ f.n = i - 1 /\ f.frame >= 0)
                          => f.frame = storedFrameIndices_[i]

\* C14: during and after a depth run that retains previews the store holds
\* exactly the previews of that run in processing order: it is empty when
\* the frame loop starts, entry i is the preview of the i-th processed frame
\* (the frame written with output file number i), the store only grows by
\* appending, the list of source-frame indices is as long as the list of
\* previews, and the source-frame indices are strictly increasing.
C14_StoreHoldsRunPreviews ==
    /\ []StoreMatchesRun
    /\ [][(th[Worker].pc = "clear" /\ th'[Worker].pc = "loop")
          => storedPreviews_' = <<>> /\ storedFrameIndices_' = <<>>]_vars
    /\ [][(PastClear(th[Worker]) /\ PastClear(th'[Worker]))
          => \/ UNCHANGED <<storedPreviews_, storedFrameIndices_>>
             \/ \E k \in 0..MaxFrames :
                   /\ storedPreviews_' = Append(storedPreviews_, latestPreview_')
                   /\ storedFrameIndices_' = Append(storedFrameIndices_, k)]_vars

\* a second depth run that retains previews has stored every frame of the
\* source, after an earlier run had filled the store
C14_Witness ==
    /\ runsStarted = 2
    /\ PastClear(th[Worker])
    /\ th[Worker].cfg.storePreviews
    /\ th[Worker].pc = "done"
    /\ th[Worker].how = "completed"
    /\ Len(storedPreviews_) = MaxFrames
    /\ \E f \in disk : f.dir = 1 /\ f.kind = "heatmap"

\* C15: for every non-empty float frame d, readPFM of the file writePFM made
\* of d returns a frame of the same width and height with the same bytes in
\* every sample, whatever the bytes are, a first sample that starts with
\* white-space bytes included.
C15_PfmRoundTrip ==
    ret.fn = "readPFM" => ret.mat = arg.depth

\* C16: requesting cancellation from the control thread always returns: the
\* control thread never waits for progressMutex_ while it owns it (the tab
\* renderer holds it when cancelExtraction calls updateProgress), and the
\* control thread and the worker's progress callback are never both blocked
\* on progressMutex_ for good.
C16_CancelReturns ==
    /\ ~(ctl = "blocked" /\ progressMutex_ = "ctl")
    /\ ctl # "terminated"
    /\ ~(ctl = "blocked" /\ th[Worker].pc = "report")

\* C17: while a worker run is in progress the control thread is never blocked
\* waiting for it: checkExtractionComplete joins the worker thread only after
\* the worker's extraction call has returned, also in the interval between
\* the creation of the thread and the worker setting isRunning_.
C17_JoinOnlyAfterReturn ==
    ctl = "joining" => th[Worker].pc = "done"

\* C18: every read or write of engine state that the worker writes and
\* another thread reads happens with previewMutex_ held, so no thread reads
\* such a field while another writes it: while a thread is reading
\* lastExtractionPath_ in a stored-frame getter, no thread assigns it.
C18_NoReadDuringWrite ==
    [][reader.pc = "path" => lastExtractionPath_' = lastExtractionPath_]_vars

C20_FrameNumbersFresh ==
    /\ [](/\ \A f \in disk :
                f.kind = "L_frame" => GetNextGlobalFrameNumber > f.n
          /\ frameCounterFile_ # <<>>
             => GetNextGlobalFrameNumber
                > SearchCounter(frameCounterFile_[2]))
    /\ [][\A f \in disk : f.kind = "L_frame" => f \in disk']_vars

\* C21: a grab error other than end-of-stream does not end a run: a run of
\* any entry point that returns as completed has taken every frame the source
\* delivers.
C21_GrabErrorDoesNotEndRun ==
    \A t \in Threads :
        (th[t].pc = "done" /\ th[t].how \in {"completed", "zero"})
        => th[t].grabbed = SvoFrames(th[t].cfg.svo)

\* C22: every progress value the frame loops of extractDepth, extractFrames
\* and extractVideo pass to the progress callback lies in [0, 1], whatever
\* total the source reports and however many frames it delivers.
C22_ProgressInUnit ==
    ret.fn \in ProgressFns => InUnit(ret.progress)

Executing(t) == th[t].pc \notin {"idle", "done"}

\* C24: whenever no extraction call is executing the running flag is false,
\* so a start is rejected as already in progress only while another call is
\* executing; and the rejected start leaves the flag as it is.
C24_RunningFlagCleared ==
    /\ []((\A t \in Threads : ~Executing(t)) => ~isRunning_)
    /\ [][\A t \in Threads :
            (th[t].pc = "check" /\ th'[t].pc = "done" /\ th'[t].how = "busy")
            => /\ isRunning_' = isRunning_
               /\ \E u \in Threads \ {t} : Executing(u)]_vars

\* one call has returned from its frame loop, the other was rejected while
\* the first was executing, and no call is executing now
C24_Witness ==
    \E t \in Threads, u \in Threads :
        /\ th[t].pc = "done" /\ th[t].how = "busy"
        /\ th[u].pc = "done" /\ th[u].how \in {"completed", "cancelled", "zero"}
        /\ ~isRunning_

\* C25: on a source whose every grab fails with an error other than
\* end-of-stream, an iteration of the depth loop leaves the call in the loop
\* with no frame processed, unless cancel() was called, and then the next
\* iteration returns the cancelled result; a depth call on any other source
\* returns.
C25_NoRetryCap ==
    /\ [][(/\ th[Worker].pc = "loop"
           /\ GrabFailsForever(th[Worker].cfg.svo)
           /\ th'[Worker] # th[Worker])
          => \/ /\ ~cancelRequested_
                /\ th'[Worker].pc = "loop"
                /\ th'[Worker].frameCount = 0
                /\ th'[Worker].extractedCount = 0
                /\ disk' = disk
             \/ /\ cancelRequested_
                /\ th'[Worker].pc = "done"
                /\ th'[Worker].result = CancelledResult]_vars
    /\ (/\ th[Worker].pc = "loop"
        /\ GrabFailsForever(th[Worker].cfg.svo)
        /\ cancelRequested_)
       ~> (th[Worker].pc = "done" /\ th[Worker].how = "cancelled")
    /\ (/\ th[Worker].op = "depth"
        /\ th[Worker].pc = "check"
        /\ ~GrabFailsForever(th[Worker].cfg.svo))
       ~> (th[Worker].pc = "done")

\* the depth loop has met more grab errors than any other source produces,
\* has processed nothing, and was then cancelled
C25_Witness ==
    /\ th[Worker].op = "depth"
    /\ GrabFailsForever(th[Worker].cfg.svo)
    /\ th[Worker].pc = "done" /\ th[Worker].how = "cancelled"
    /\ th[Worker].grabErrs = MaxGrabErrors
    /\ th[Worker].extractedCount = 0

\* C26: in every depth run, also one that follows an earlier run on the same
\* engine, the visualization input of the first processed frame is that
\* frame's raw depth and no region of it is motion-highlighted, and the
\* visualization input and motion mask of every frame are those the run's
\* own frames give from empty accumulators.
C26_TemporalStatePerRun ==
    (ret.fn = "temporal" /\ ret.pc = "loop" /\ ret.seen # <<>>)
    => LET k == Len(ret.seen)
           before == AccumulatorAfter(ret.cfg, SubSeq(ret.seen, 1, k - 1))
       IN  /\ k = 1 => /\ ret.viz = ret.seen[1]
                       /\ \A i \in 1..MaxRegions : ~ret.motion[i]
           /\ ret.viz = VizDepths(ret.cfg, ret.seen[k], before)
           /\ ret.motion = MotionMask(FrameInput(ret.cfg, ret.seen[k], before))

\* the first frame of a second run on the engine, with smoothing and motion
\* highlighting on
C26_Witness ==
    /\ ret.fn = "temporal" /\ ret.pc = "loop"
    /\ ret.run = 2
    /\ Len(ret.seen) = 1
    /\ ret.cfg.useTemporalSmooth /\ ret.cfg.highlightMotion
    /\ ret.seen[1] = [i \in 1..MaxRegions |-> 30]

\* C27: the image reprocessDepthFrame produces is the stateless transform of
\* the frame: the heatmap of its depth under its confidence mask (with the
\* mask's floor), then the optional overlay, whether the depth came from the
\* saved raw file or from a re-seek, whatever useTemporalSmooth and
\* highlightMotion are.
C27_ReprocessIsStateless ==
    ret.fn = "reprocessDepthFrame"
    => LET heat == ApplyDepthHeatmap(arg.img, arg.minDepth, arg.maxDepth, arg.autoContrast, TRUE, arg.confidenceThreshold, ret.nan8)
       IN  ret.pixels = [i \in DOMAIN arg.img |->
                            IF arg.overlayOnRgb /\ arg.leftBgr # Black
                            THEN AddWeighted(heat.pixels[i], arg.overlayStrength,
                                             arg.leftBgr)
                            ELSE heat.pixels[i]]

\* what getLatestDepthPreview, getLatestDepthPreviewInfo and
\* getLatestDepthLegend hand out: whether the call returned true, the copy,
\* and the version
GetLatestDepthPreview ==
    [ok |-> latestPreview_ # EmptyMat, out |-> latestPreview_,
     version |-> previewVersion_]

GetLatestDepthPreviewInfo ==
    [ok |-> latestPreview_ # EmptyMat, out |-> latestPreviewInfo_,
     version |-> previewVersion_]

GetLatestDepthLegend ==
    [ok |-> latestLegend_ # NoLegend, out |-> latestLegend_,
     version |-> previewVersion_]

\* C28: whenever the three getters succeed with the same version, the info
\* and the legend are those of the configuration that produced the preview
\* image (here: its colour map), after every extracted frame and every
\* reprocessDepthFrame; and every change of the latest preview raises the
\* version.
C28_PreviewInfoAligned ==
    /\ [](( /\ GetLatestDepthPreview.ok
            /\ GetLatestDepthPreviewInfo.ok
            /\ GetLatestDepthLegend.ok
            /\ GetLatestDepthPreviewInfo.version = GetLatestDepthPreview.version
            /\ GetLatestDepthLegend.version = GetLatestDepthPreview.version)
           => /\ GetLatestDepthPreviewInfo.out.colorMap
                     = GetLatestDepthPreview.out.cmap
              /\ GetLatestDepthLegend.out
                     = LegendStrip(GetLatestDepthPreview.out.cmap))
    /\ [][latestPreview_' # latestPreview_ => previewVersion_' > previewVersion_]_vars

\* C29: however a depth run ends (completed, cancelled, or failed by an
\* exception), the result's framesProcessed is the number of frames the
\* run extracted, and its outputPath is the run's extraction directory
\* whenever that directory was created.
C29_ResultReportsRun ==
    LET w == th[Worker]
    IN  (/\ w.op = "depth" /\ w.pc = "done"
         /\ w.how \in {"completed", "cancelled", "exception"})
        => /\ w.result.framesProcessed = w.extractedCount
           /\ w.extractionPath # 0 => w.result.outputPath = w.extractionPath

\* C30: a reprocessDepthFrame call whose storedIndex lies outside the store
\* returns false, opens no source, writes no file, and leaves the latest
\* preview, the preview version and the store as they were.
C30_OutOfRangeIndexRejected ==
    [][(/\ reprocessCalls' = reprocessCalls + 1
        /\ \/ lastReprocess'.index < 0
           \/ lastReprocess'.index >= Len(storedPreviews_))
       => /\ ~lastReprocess'.ret /\ ~lastReprocess'.threw
          /\ ~lastReprocess'.opened
          /\ disk' = disk
          /\ latestPreview_' = latestPreview_
          /\ previewVersion_' = previewVersion_
          /\ storedPreviews_' = storedPreviews_]_vars

====
